---- MODULE Spec2Model ----
\* Model of the organisation ETL: the merge of ABN / ACNC / NSW records
\* (app/api/routes.py, merge_organization_records) and the concurrent batch
\* extraction that feeds it (sync_all_sources).
EXTENDS Integers, Sequences, FiniteSets, TLC

\* ------------------------------------------------------------------
\* Bounds of the model
\* ------------------------------------------------------------------
MaxAbn == 2         \* longest abn_records input of a merge call
MaxAcnc == 2        \* longest acnc_records input of a merge call
MaxNsw == 2         \* longest nsw_records input of a merge call
MaxTime == 2        \* last reading of the wall clock
MaxPostcodes == 2   \* most postcodes registered for the state
MaxRequests == 2    \* most requests served one after the other
MaxFile == 1        \* longest file of postcodes uploaded between repeated requests
MaxAbrCalls == 2    \* most calls of the ABR client made one after the other

\* ------------------------------------------------------------------
\* Python values
\* ------------------------------------------------------------------
\* A str is the sequence of its characters (one-character strings); None is
\* a value different from every str.
None == <<"None">>

\* `if v:` on an Optional[str]: None and "" are falsy.
Truthy(v) == v # None /\ v # <<>>

\* dict.get(key): None when the key is absent.
Get(d, key) == IF key \in DOMAIN d THEN d[key] ELSE None

\* dict.get(key, default)
GetDefault(d, key, default) == IF key \in DOMAIN d THEN d[key] ELSE default

\* d[key] = value on a dict (a function from its keys).
DictSet(d, key, value) ==
    [k \in (DOMAIN d) \cup {key} |-> IF k = key THEN value ELSE d[k]]

IsSpace(c) == c = " "

RECURSIVE LStrip(_)
LStrip(s) == IF s # <<>> /\ IsSpace(Head(s)) THEN LStrip(Tail(s)) ELSE s

RECURSIVE RStrip(_)
RStrip(s) ==
    IF s # <<>> /\ IsSpace(s[Len(s)]) THEN RStrip(SubSeq(s, 1, Len(s) - 1)) ELSE s

\* str.strip()
Strip(s) == RStrip(LStrip(s))

UpperChar(c) ==
    CASE c = "a" -> "A" [] c = "b" -> "B" [] c = "n" -> "N" [] c = "s" -> "S"
      [] c = "w" -> "W" [] OTHER -> c

\* str.upper()
Upper(s) == [i \in 1..Len(s) |-> UpperChar(s[i])]

\* name.strip().upper()
clean_name(name) == Upper(Strip(name))

\* d[key] raises KeyError when the dict lacks the key.
IndexRaises(d, key) == key \notin DOMAIN d

\* v.strip() raises AttributeError when v is None, which has no such method.
StripRaises(v) == v = None

\* ------------------------------------------------------------------
\* merge_organization_records
\* ------------------------------------------------------------------
InitStats(abn_records, acnc_records, nsw_records) ==
    [ total_abn_records |-> Len(abn_records),
      total_acnc_records |-> Len(acnc_records),
      total_nsw_records |-> Len(nsw_records),
      merged_records |-> 0,
      abn_only |-> 0,
      acnc_only |-> 0,
      nsw_only |-> 0,
      abn_acnc_matches |-> 0,
      acnc_nsw_matches |-> 0,
      all_source_matches |-> 0 ]

\* The lookup that keeps the first record of an abn.
RECURSIVE by_abn_m(_)
by_abn_m(records) ==
    IF records = <<>> THEN <<>>
    ELSE LET n == Len(records)
             d == by_abn_m(SubSeq(records, 1, n - 1))
             record == records[n]
         IN  IF Truthy(Get(record, "abn")) /\ record["abn"] \notin DOMAIN d
             THEN DictSet(d, record["abn"], record)
             ELSE d

\* {record['abn']: record for record in records if record.get('abn')}
RECURSIVE by_abn(_)
by_abn(records) ==
    IF records = <<>> THEN <<>>
    ELSE LET n == Len(records)
             d == by_abn(SubSeq(records, 1, n - 1))
             record == records[n]
         IN  IF Truthy(Get(record, "abn")) THEN DictSet(d, record["abn"], record) ELSE d

\* Whether the comprehension raises: it indexes record['abn'] of the records
\* that pass its test.
by_abn_raises(records) ==
    \E i \in 1..Len(records) :
        Truthy(Get(records[i], "abn")) /\ IndexRaises(records[i], "abn")

\* Whether the loop that fills nsw_by_name raises: it calls
\* record['name'].strip() on the records that pass its test.
build_nsw_by_name_raises(nsw_records) ==
    \E i \in 1..Len(nsw_records) :
        /\ Truthy(Get(nsw_records[i], "name"))
        /\ (IndexRaises(nsw_records[i], "name") \/ StripRaises(nsw_records[i]["name"]))

RECURSIVE build_nsw_by_name(_)
build_nsw_by_name(nsw_records) ==
    IF nsw_records = <<>> THEN <<>>
    ELSE LET n == Len(nsw_records)
             d == build_nsw_by_name(SubSeq(nsw_records, 1, n - 1))
             record == nsw_records[n]
         IN  IF Truthy(Get(record, "name"))
             THEN DictSet(d, clean_name(record["name"]), record)
             ELSE d

\* The merged record seeded from an ABN record.
AbnSeed(abn_record, now) ==
    [ abn |-> Get(abn_record, "abn"),
      is_current |-> Get(abn_record, "is_current"),
      replaced_from |-> Get(abn_record, "replaced_from"),
      entity_status |-> Get(abn_record, "entity_status"),
      effective_from |-> Get(abn_record, "effective_from"),
      effective_to |-> Get(abn_record, "effective_to"),
      entity_type_code |-> Get(abn_record, "entity_type_code"),
      entity_type_description |-> Get(abn_record, "entity_type_description"),
      anc_status |-> Get(abn_record, "anc_status"),
      acnc_status_from |-> Get(abn_record, "acnc_status_from"),
      acnc_status_to |-> Get(abn_record, "acnc_status_to"),
      record_last_updated |-> Get(abn_record, "record_last_updated"),
      gst |-> Get(abn_record, "gst"),
      dgr |-> Get(abn_record, "dgr"),
      main_trading_names |-> Get(abn_record, "main_trading_names"),
      other_trading_names |-> Get(abn_record, "other_trading_names"),
      main_business_physical_address |-> Get(abn_record, "main_business_physical_address"),
      tax_concession_endorsements |-> Get(abn_record, "tax_concession_endorsements"),
      legal_name |-> None,
      other_organisation_names |-> None,
      charity_website |-> None,
      date_organisation_established |-> None,
      registration_date |-> None,
      charity_size |-> None,
      number_of_responsible_persons |-> None,
      financial_year_end |-> None,
      operates_in |-> None,
      areas_of_interest |-> None,
      acnc_address |-> None,
      nsw_organisation_number |-> None,
      nsw_name |-> None,
      nsw_organisation_type |-> None,
      nsw_status |-> None,
      nsw_date_registered |-> None,
      nsw_date_removed |-> None,
      nsw_registered_office_address |-> None,
      nsw_organisation_id |-> None,
      sources |-> <<"abn">>,
      updated_at |-> now ]

\* The same seed with the clock also written into record_last_updated.
AcncSeed_m(acnc_record, abn, now) ==
    [ abn |-> abn,
      is_current |-> None,
      replaced_from |-> None,
      entity_status |-> None,
      effective_from |-> None,
      effective_to |-> None,
      entity_type_code |-> None,
      entity_type_description |-> None,
      anc_status |-> None,
      acnc_status_from |-> None,
      acnc_status_to |-> None,
      record_last_updated |-> now,
      gst |-> None,
      dgr |-> None,
      main_trading_names |-> None,
      other_trading_names |-> None,
      main_business_physical_address |-> None,
      tax_concession_endorsements |-> None,
      legal_name |-> Get(acnc_record, "legal_name"),
      other_organisation_names |-> Get(acnc_record, "other_organisation_names"),
      charity_website |-> Get(acnc_record, "charity_wbsite"),
      date_organisation_established |-> Get(acnc_record, "date_organisation_established"),
      registration_date |-> Get(acnc_record, "registration_date"),
      charity_size |-> Get(acnc_record, "charity_size"),
      number_of_responsible_persons |-> Get(acnc_record, "number_of_responsible_persons"),
      financial_year_end |-> Get(acnc_record, "finacial_year_end"),
      operates_in |-> Get(acnc_record, "operates_in"),
      areas_of_interest |-> Get(acnc_record, "areas_of_interest"),
      acnc_address |-> Get(acnc_record, "address"),
      nsw_organisation_number |-> None,
      nsw_name |-> None,
      nsw_organisation_type |-> None,
      nsw_status |-> None,
      nsw_date_registered |-> None,
      nsw_date_removed |-> None,
      nsw_registered_office_address |-> None,
      nsw_organisation_id |-> None,
      sources |-> <<"acnc">>,
      updated_at |-> now ]

\* The merged record seeded from an ACNC record that no ABN record claimed.
AcncSeed(acnc_record, abn, now) ==
    [ abn |-> abn,
      is_current |-> None,
      replaced_from |-> None,
      entity_status |-> None,
      effective_from |-> None,
      effective_to |-> None,
      entity_type_code |-> None,
      entity_type_description |-> None,
      anc_status |-> None,
      acnc_status_from |-> None,
      acnc_status_to |-> None,
      record_last_updated |-> None,
      gst |-> None,
      dgr |-> None,
      main_trading_names |-> None,
      other_trading_names |-> None,
      main_business_physical_address |-> None,
      tax_concession_endorsements |-> None,
      legal_name |-> Get(acnc_record, "legal_name"),
      other_organisation_names |-> Get(acnc_record, "other_organisation_names"),
      charity_website |-> Get(acnc_record, "charity_wbsite"),
      date_organisation_established |-> Get(acnc_record, "date_organisation_established"),
      registration_date |-> Get(acnc_record, "registration_date"),
      charity_size |-> Get(acnc_record, "charity_size"),
      number_of_responsible_persons |-> Get(acnc_record, "number_of_responsible_persons"),
      financial_year_end |-> Get(acnc_record, "finacial_year_end"),
      operates_in |-> Get(acnc_record, "operates_in"),
      areas_of_interest |-> Get(acnc_record, "areas_of_interest"),
      acnc_address |-> Get(acnc_record, "address"),
      nsw_organisation_number |-> None,
      nsw_name |-> None,
      nsw_organisation_type |-> None,
      nsw_status |-> None,
      nsw_date_registered |-> None,
      nsw_date_removed |-> None,
      nsw_registered_office_address |-> None,
      nsw_organisation_id |-> None,
      sources |-> <<"acnc">>,
      updated_at |-> now ]

\* The NSW seed that also keeps the name of the NSW record under its own key.
NswSeed_m(nsw_record, now) ==
    [ abn |-> None,
      is_current |-> None,
      replaced_from |-> None,
      entity_status |-> None,
      effective_from |-> None,
      effective_to |-> None,
      entity_type_code |-> None,
      entity_type_description |-> None,
      anc_status |-> None,
      acnc_status_from |-> None,
      acnc_status_to |-> None,
      record_last_updated |-> None,
      gst |-> None,
      dgr |-> None,
      main_trading_names |-> None,
      other_trading_names |-> None,
      main_business_physical_address |-> None,
      tax_concession_endorsements |-> None,
      legal_name |-> None,
      other_organisation_names |-> None,
      charity_website |-> None,
      date_organisation_established |-> None,
      registration_date |-> None,
      charity_size |-> None,
      number_of_responsible_persons |-> None,
      financial_year_end |-> None,
      operates_in |-> None,
      areas_of_interest |-> None,
      acnc_address |-> None,
      nsw_organisation_number |-> Get(nsw_record, "organisation_number"),
      nsw_name |-> Get(nsw_record, "name"),
      nsw_organisation_type |-> Get(nsw_record, "organisation_type"),
      nsw_status |-> Get(nsw_record, "status"),
      nsw_date_registered |-> Get(nsw_record, "date_registered"),
      nsw_date_removed |-> Get(nsw_record, "date_removed"),
      nsw_registered_office_address |-> Get(nsw_record, "registered_office_address"),
      nsw_organisation_id |-> Get(nsw_record, "organisation_id"),
      sources |-> <<"nsw">>,
      name |-> Get(nsw_record, "name"),
      updated_at |-> now ]

\* The merged record seeded from an NSW record that no ACNC name claimed.
NswSeed(nsw_record, now) ==
    [ abn |-> None,
      is_current |-> None,
      replaced_from |-> None,
      entity_status |-> None,
      effective_from |-> None,
      effective_to |-> None,
      entity_type_code |-> None,
      entity_type_description |-> None,
      anc_status |-> None,
      acnc_status_from |-> None,
      acnc_status_to |-> None,
      record_last_updated |-> None,
      gst |-> None,
      dgr |-> None,
      main_trading_names |-> None,
      other_trading_names |-> None,
      main_business_physical_address |-> None,
      tax_concession_endorsements |-> None,
      legal_name |-> None,
      other_organisation_names |-> None,
      charity_website |-> None,
      date_organisation_established |-> None,
      registration_date |-> None,
      charity_size |-> None,
      number_of_responsible_persons |-> None,
      financial_year_end |-> None,
      operates_in |-> None,
      areas_of_interest |-> None,
      acnc_address |-> None,
      nsw_organisation_number |-> Get(nsw_record, "organisation_number"),
      nsw_name |-> Get(nsw_record, "name"),
      nsw_organisation_type |-> Get(nsw_record, "organisation_type"),
      nsw_status |-> Get(nsw_record, "status"),
      nsw_date_registered |-> Get(nsw_record, "date_registered"),
      nsw_date_removed |-> Get(nsw_record, "date_removed"),
      nsw_registered_office_address |-> Get(nsw_record, "registered_office_address"),
      nsw_organisation_id |-> Get(nsw_record, "organisation_id"),
      sources |-> <<"nsw">>,
      updated_at |-> now ]

\* The ACNC fields are written but 'acnc' is not appended to sources.
UpdateAcnc_m(merged_record, acnc_record) ==
    [ merged_record EXCEPT
      !.legal_name = Get(acnc_record, "legal_name"),
      !.other_organisation_names = Get(acnc_record, "other_organisation_names"),
      !.charity_website = Get(acnc_record, "charity_wbsite"),
      !.date_organisation_established = Get(acnc_record, "date_organisation_established"),
      !.registration_date = Get(acnc_record, "registration_date"),
      !.charity_size = Get(acnc_record, "charity_size"),
      !.number_of_responsible_persons = Get(acnc_record, "number_of_responsible_persons"),
      !.financial_year_end = Get(acnc_record, "finacial_year_end"),
      !.operates_in = Get(acnc_record, "operates_in"),
      !.areas_of_interest = Get(acnc_record, "areas_of_interest"),
      !.acnc_address = Get(acnc_record, "address") ]

\* merged_record.update({... ACNC fields ...}); sources.append('acnc')
UpdateAcnc(merged_record, acnc_record) ==
    [ merged_record EXCEPT
      !.legal_name = Get(acnc_record, "legal_name"),
      !.other_organisation_names = Get(acnc_record, "other_organisation_names"),
      !.charity_website = Get(acnc_record, "charity_wbsite"),
      !.date_organisation_established = Get(acnc_record, "date_organisation_established"),
      !.registration_date = Get(acnc_record, "registration_date"),
      !.charity_size = Get(acnc_record, "charity_size"),
      !.number_of_responsible_persons = Get(acnc_record, "number_of_responsible_persons"),
      !.financial_year_end = Get(acnc_record, "finacial_year_end"),
      !.operates_in = Get(acnc_record, "operates_in"),
      !.areas_of_interest = Get(acnc_record, "areas_of_interest"),
      !.acnc_address = Get(acnc_record, "address"),
      !.sources = Append(@, "acnc") ]

\* The NSW fields are written but 'nsw' is not appended to sources.
UpdateNsw_m(merged_record, nsw_record) ==
    [ merged_record EXCEPT
      !.nsw_organisation_number = Get(nsw_record, "organisation_number"),
      !.nsw_name = Get(nsw_record, "name"),
      !.nsw_organisation_type = Get(nsw_record, "organisation_type"),
      !.nsw_status = Get(nsw_record, "status"),
      !.nsw_date_registered = Get(nsw_record, "date_registered"),
      !.nsw_date_removed = Get(nsw_record, "date_removed"),
      !.nsw_registered_office_address = Get(nsw_record, "registered_office_address"),
      !.nsw_organisation_id = Get(nsw_record, "organisation_id") ]

\* merged_record.update({... NSW fields ...}); sources.append('nsw')
UpdateNsw(merged_record, nsw_record) ==
    [ merged_record EXCEPT
      !.nsw_organisation_number = Get(nsw_record, "organisation_number"),
      !.nsw_name = Get(nsw_record, "name"),
      !.nsw_organisation_type = Get(nsw_record, "organisation_type"),
      !.nsw_status = Get(nsw_record, "status"),
      !.nsw_date_registered = Get(nsw_record, "date_registered"),
      !.nsw_date_removed = Get(nsw_record, "date_removed"),
      !.nsw_registered_office_address = Get(nsw_record, "registered_office_address"),
      !.nsw_organisation_id = Get(nsw_record, "organisation_id"),
      !.sources = Append(@, "nsw") ]

\* The statistics update that closes an iteration of the ABN loop, with the
\* second branch taken whenever no NSW record matched.
AbnClassify_m(stats, has_acnc_match, has_nsw_match) ==
    IF has_acnc_match /\ has_nsw_match
    THEN [stats EXCEPT !.all_source_matches = @ + 1]
    ELSE IF ~has_nsw_match
         THEN [stats EXCEPT !.abn_only = @ + 1]
         ELSE stats

\* The statistics update that closes an iteration of the ABN loop, with the
\* first branch taken on every ACNC match.
AbnClassify_m2(stats, has_acnc_match, has_nsw_match) ==
    IF has_acnc_match
    THEN [stats EXCEPT !.all_source_matches = @ + 1]
    ELSE IF ~has_acnc_match /\ ~has_nsw_match
         THEN [stats EXCEPT !.abn_only = @ + 1]
         ELSE stats

\* The statistics update that closes an iteration of the ABN loop.
AbnClassify(stats, has_acnc_match, has_nsw_match) ==
    IF has_acnc_match /\ has_nsw_match
    THEN [stats EXCEPT !.all_source_matches = @ + 1]
    ELSE IF ~has_acnc_match /\ ~has_nsw_match
         THEN [stats EXCEPT !.abn_only = @ + 1]
         ELSE stats

\* One iteration of `for abn_record in abn_records`.  st carries the locals
\* merged_records, stats, processed_abns and processed_nsw_names, and raised:
\* whether an exception has left the function.
AbnLoopBody(st, abn_record, acnc_by_abn, nsw_by_name, now) ==
    LET abn == Get(abn_record, "abn") IN
    IF st.raised THEN st
    ELSE IF ~Truthy(abn) \/ abn \in st.processed_abns THEN st
    ELSE IF /\ abn \in DOMAIN acnc_by_abn
            /\ Truthy(Get(acnc_by_abn[abn], "legal_name"))
            /\ StripRaises(Get(acnc_by_abn[abn], "legal_name"))
    THEN [st EXCEPT !.raised = TRUE]
    ELSE
      LET has_acnc_match == abn \in DOMAIN acnc_by_abn
          acnc_record == acnc_by_abn[abn]
          legal_name == Get(acnc_record, "legal_name")
          clean_legal_name == clean_name(legal_name)
          has_nsw_match ==
              /\ has_acnc_match
              /\ Truthy(legal_name)
              /\ clean_legal_name \in DOMAIN nsw_by_name
          m0 == AbnSeed(abn_record, now)
          m1 == IF has_acnc_match THEN UpdateAcnc(m0, acnc_record) ELSE m0
          m2 == IF has_nsw_match THEN UpdateNsw(m1, nsw_by_name[clean_legal_name]) ELSE m1
          s1 == IF has_acnc_match
                THEN [st.stats EXCEPT !.abn_acnc_matches = @ + 1] ELSE st.stats
          s2 == IF has_nsw_match THEN [s1 EXCEPT !.acnc_nsw_matches = @ + 1] ELSE s1
      IN  [ merged_records |-> Append(st.merged_records, m2),
            stats |-> AbnClassify(s2, has_acnc_match, has_nsw_match),
            processed_abns |-> st.processed_abns \cup {abn},
            processed_nsw_names |->
                IF has_nsw_match THEN st.processed_nsw_names \cup {clean_legal_name}
                ELSE st.processed_nsw_names,
            raised |-> FALSE ]

\* The same iteration with the consumed name recorded stripped but not
\* upper-cased.
AcncLoopBody_m(st, acnc_record, nsw_by_name, now) ==
    LET abn == Get(acnc_record, "abn") IN
    IF st.raised THEN st
    ELSE IF ~Truthy(abn) \/ abn \in st.processed_abns THEN st
    ELSE IF /\ Truthy(Get(acnc_record, "legal_name"))
            /\ StripRaises(Get(acnc_record, "legal_name"))
    THEN [st EXCEPT !.raised = TRUE]
    ELSE
      LET legal_name == Get(acnc_record, "legal_name")
          clean_legal_name == clean_name(legal_name)
          nsw_match ==
              /\ Truthy(legal_name)
              /\ clean_legal_name \in DOMAIN nsw_by_name
              /\ clean_legal_name \notin st.processed_nsw_names
          m0 == AcncSeed(acnc_record, abn, now)
          m1 == IF nsw_match THEN UpdateNsw(m0, nsw_by_name[clean_legal_name]) ELSE m0
      IN  [ merged_records |-> Append(st.merged_records, m1),
            stats |-> IF nsw_match
                      THEN [st.stats EXCEPT !.acnc_nsw_matches = @ + 1]
                      ELSE [st.stats EXCEPT !.acnc_only = @ + 1],
            processed_abns |-> st.processed_abns,
            processed_nsw_names |->
                IF nsw_match THEN st.processed_nsw_names \cup {Strip(legal_name)}
                ELSE st.processed_nsw_names,
            raised |-> FALSE ]

\* The same iteration without the test `if legal_name:`.
AcncLoopBody_m2(st, acnc_record, nsw_by_name, now) ==
    LET abn == Get(acnc_record, "abn") IN
    IF st.raised THEN st
    ELSE IF ~Truthy(abn) \/ abn \in st.processed_abns THEN st
    ELSE IF StripRaises(Get(acnc_record, "legal_name"))
    THEN [st EXCEPT !.raised = TRUE]
    ELSE
      LET legal_name == Get(acnc_record, "legal_name")
          clean_legal_name == clean_name(legal_name)
          nsw_match ==
              /\ clean_legal_name \in DOMAIN nsw_by_name
              /\ clean_legal_name \notin st.processed_nsw_names
          m0 == AcncSeed(acnc_record, abn, now)
          m1 == IF nsw_match THEN UpdateNsw(m0, nsw_by_name[clean_legal_name]) ELSE m0
      IN  [ merged_records |-> Append(st.merged_records, m1),
            stats |-> IF nsw_match
                      THEN [st.stats EXCEPT !.acnc_nsw_matches = @ + 1]
                      ELSE [st.stats EXCEPT !.acnc_only = @ + 1],
            processed_abns |-> st.processed_abns,
            processed_nsw_names |->
                IF nsw_match THEN st.processed_nsw_names \cup {clean_legal_name}
                ELSE st.processed_nsw_names,
            raised |-> FALSE ]

\* One iteration of `for acnc_record in acnc_records`.
AcncLoopBody(st, acnc_record, nsw_by_name, now) ==
    LET abn == Get(acnc_record, "abn") IN
    IF st.raised THEN st
    ELSE IF ~Truthy(abn) \/ abn \in st.processed_abns THEN st
    ELSE IF /\ Truthy(Get(acnc_record, "legal_name"))
            /\ StripRaises(Get(acnc_record, "legal_name"))
    THEN [st EXCEPT !.raised = TRUE]
    ELSE
      LET legal_name == Get(acnc_record, "legal_name")
          clean_legal_name == clean_name(legal_name)
          nsw_match ==
              /\ Truthy(legal_name)
              /\ clean_legal_name \in DOMAIN nsw_by_name
              /\ clean_legal_name \notin st.processed_nsw_names
          m0 == AcncSeed(acnc_record, abn, now)
          m1 == IF nsw_match THEN UpdateNsw(m0, nsw_by_name[clean_legal_name]) ELSE m0
      IN  [ merged_records |-> Append(st.merged_records, m1),
            stats |-> IF nsw_match
                      THEN [st.stats EXCEPT !.acnc_nsw_matches = @ + 1]
                      ELSE [st.stats EXCEPT !.acnc_only = @ + 1],
            processed_abns |-> st.processed_abns,
            processed_nsw_names |->
                IF nsw_match THEN st.processed_nsw_names \cup {clean_legal_name}
                ELSE st.processed_nsw_names,
            raised |-> FALSE ]

\* The same iteration with only the empty name skipped: the test is
\* `if name == ''` instead of `if not name`.
NswLoopBody_m(st, nsw_record, now) ==
    LET name == Get(nsw_record, "name") IN
    IF st.raised THEN st
    ELSE IF name = <<>> THEN st
    ELSE IF StripRaises(name) THEN [st EXCEPT !.raised = TRUE]
    ELSE IF clean_name(name) \in st.processed_nsw_names THEN st
    ELSE [ merged_records |-> Append(st.merged_records, NswSeed(nsw_record, now)),
           stats |-> [st.stats EXCEPT !.nsw_only = @ + 1],
           processed_abns |-> st.processed_abns,
           processed_nsw_names |-> st.processed_nsw_names,
           raised |-> FALSE ]

\* One iteration of `for nsw_record in nsw_records`.
NswLoopBody(st, nsw_record, now) ==
    LET name == Get(nsw_record, "name") IN
    IF st.raised THEN st
    ELSE IF ~Truthy(name) THEN st
    ELSE IF StripRaises(name) THEN [st EXCEPT !.raised = TRUE]
    ELSE IF clean_name(name) \in st.processed_nsw_names THEN st
    ELSE [ merged_records |-> Append(st.merged_records, NswSeed(nsw_record, now)),
           stats |-> [st.stats EXCEPT !.nsw_only = @ + 1],
           processed_abns |-> st.processed_abns,
           processed_nsw_names |-> st.processed_nsw_names,
           raised |-> FALSE ]

RECURSIVE AbnLoop(_, _, _, _, _)
AbnLoop(st, abn_records, acnc_by_abn, nsw_by_name, now) ==
    IF abn_records = <<>> THEN st
    ELSE AbnLoop(AbnLoopBody(st, Head(abn_records), acnc_by_abn, nsw_by_name, now),
                 Tail(abn_records), acnc_by_abn, nsw_by_name, now)

RECURSIVE AcncLoop(_, _, _, _)
AcncLoop(st, acnc_records, nsw_by_name, now) ==
    IF acnc_records = <<>> THEN st
    ELSE AcncLoop(AcncLoopBody(st, Head(acnc_records), nsw_by_name, now),
                  Tail(acnc_records), nsw_by_name, now)

RECURSIVE NswLoop(_, _, _)
NswLoop(st, nsw_records, now) ==
    IF nsw_records = <<>> THEN st
    ELSE NswLoop(NswLoopBody(st, Head(nsw_records), now), Tail(nsw_records), now)

\* The locals of merge_organization_records after each of its three loops.
\* now is the reading of datetime.now() that stamps the records of the call.
AfterAbnLoop(abn_records, acnc_records, nsw_records, now) ==
    AbnLoop([ merged_records |-> <<>>,
              stats |-> InitStats(abn_records, acnc_records, nsw_records),
              processed_abns |-> {},
              processed_nsw_names |-> {},
              raised |-> \/ by_abn_raises(abn_records)
                         \/ by_abn_raises(acnc_records)
                         \/ build_nsw_by_name_raises(nsw_records) ],
            abn_records, by_abn(acnc_records), build_nsw_by_name(nsw_records), now)

AfterAcncLoop(abn_records, acnc_records, nsw_records, now) ==
    AcncLoop(AfterAbnLoop(abn_records, acnc_records, nsw_records, now),
             acnc_records, build_nsw_by_name(nsw_records), now)

AfterNswLoop(abn_records, acnc_records, nsw_records, now) ==
    NswLoop(AfterAcncLoop(abn_records, acnc_records, nsw_records, now), nsw_records, now)

\* merge_organization_records: (merged_records, stats), or an exception
\* (raised) and no return value.
merge_organization_records(abn_records, acnc_records, nsw_records, now) ==
    LET st == AfterNswLoop(abn_records, acnc_records, nsw_records, now)
    IN  [ merged_records |-> st.merged_records,
          stats |-> [st.stats EXCEPT !.merged_records = Len(st.merged_records)],
          raised |-> st.raised ]

\* ------------------------------------------------------------------
\* DataTransformer
\* ------------------------------------------------------------------
\* One item of transform_abn_data.
AbnTransformed(item, now) ==
    [ abn |-> Get(item, "abn"),
      is_current |-> Get(item, "isCurrent"),
      replaced_from |-> Get(item, "replacedFrom"),
      entity_status |-> Get(item, "entityStatus"),
      effective_from |-> Get(item, "effectiveFrom"),
      effective_to |-> Get(item, "effectiveTo"),
      entity_type_code |-> Get(item, "entityTypeCode"),
      entity_type_description |-> Get(item, "entityTypeDescription"),
      anc_status |-> Get(item, "anc_status"),
      acnc_status_from |-> Get(item, "acnc_status_from"),
      acnc_status_to |-> Get(item, "acnc_status_to"),
      record_last_updated |-> Get(item, "record_last_updated"),
      gst |-> Get(item, "gst"),
      dgr |-> Get(item, "dgr"),
      main_trading_names |-> Get(item, "main_trading_names"),
      other_trading_names |-> Get(item, "other_trading_names"),
      main_business_physical_address |-> GetDefault(item, "main_business_physical_address", <<>>),
      tax_concession_endorsements |-> GetDefault(item, "tax_concession_endorsements", <<>>),
      updated_at |-> now ]

\* The 'address' dict of transform_acnc_data: a dict literal keeps the
\* last value given for the repeated key 'street'.
AcncAddress(item) ==
    [ street |-> Get(item, "Address_Line_3"),
      city |-> Get(item, "Town_City"),
      state |-> Get(item, "State"),
      postcode |-> Get(item, "Postcode"),
      country |-> Get(item, "Country") ]

\* The 'operates_in' dict of transform_acnc_data.
AcncOperatesIn(item) ==
    [ act |-> Get(item, "Operates_in_ACT"),
      nsw |-> Get(item, "Operates_in_NSW"),
      nt |-> Get(item, "Operates_in_NT"),
      qld |-> Get(item, "Operates_in_QLD"),
      sa |-> Get(item, "Operates_in_SA"),
      tas |-> Get(item, "Operates_in_TAS"),
      vic |-> Get(item, "Operates_in_VIC"),
      wa |-> Get(item, "Operates_in_WA"),
      countries |-> Get(item, "Operates_in_Countries") ]

\* The keys of the 'areas_of_interest' dict of transform_acnc_data, each with
\* the key of the raw item it is read from.
AreasOfInterestFields ==
    << <<"pbi", "PBI">>,
       <<"hpc", "HPC">>,
       <<"preventing_or_relieving_suffering_of_animals", "Preventing_or_relieving_suffering_of_animals">>,
       <<"aborigninal_or_tsi", "Aboriginal_or_TSI">>,
       <<"adults", "Adults">>,
       <<"advancing_health", "Advancing_health">>,
       <<"advancing_education", "Advancing_education">>,
       <<"advancing_religion", "Advancing_religion">>,
       <<"advancing_culture", "Advancing_culture">>,
       <<"advancing_social_or_public_welfare", "Advancing_social_or_public_welfare">>,
       <<"advancing_natural_environment", "Advancing_natual_environment">>,
       <<"advancing_security_or safety_of_australia_or_australian_public", "Advancing_security_or_safety_of_Australia_or_Australian_public">>,
       <<"aged_persons", "Aged_Persons">>,
       <<"childern", "Children">>,
       <<"communities_overseas", "Communities_Overseas">>,
       <<"early_childhood", "Early_Childhood">>,
       <<"ethnic_groups", "Ethnic_Groups">>,
       <<"families", "Families">>,
       <<"females", "Females">>,
       <<"financially_disadvantaged", "Financially_Disadvantaged">>,
       <<"gay_lesbian_bisexual", "Gay_Lesbian_Bisexual">>,
       <<"general_community_in_australia", "General_Community_in_Australia">>,
       <<"males", "Males">>,
       <<"migrants_refugees_or_asylum_seekers", "Migrants_Refugees_or_Asylum_Seekers">>,
       <<"other_beneficiaries", "Other_Beneficiaries">>,
       <<"other_charities", "Other_Charities">>,
       <<"promote_or_oppose_a_change_to_law__government_poll_or_prac", "Promote_or_oppose_a_change_to_law__government_poll_or_prac">>,
       <<"promoting_or_protecting_human_rights", "Promoting_or_protecting_human_rights">>,
       <<"promoting_reconciliation__mutual_respect_and_tolerance", "Promoting_reconciliation__mutual_respect_and_tolerance">>,
       <<"purposes_beneficial_to_ther_general_public_and_other_analogous", "Purposes_beneficial_to_ther_general_public_and_other_analogous">>,
       <<"people_at_risk_of_homelessness", "People_at_risk_of_homelessness">>,
       <<"people_with_chronic_illness", "People_with_Chronic_Illness">>,
       <<"people_with_disabilities", "People_with_Disabilities">>,
       <<"pre_post_releaseoffenders", "Pre_Post_Release_Offenders">>,
       <<"rural_regional_remote_communities", "Rural_Regional_Remote_Communities">>,
       <<"unemployed_person", "Unemployed_Person">>,
       <<"veterans_or_their_families", "Veterans_or_their_families">>,
       <<"victims_of_crime", "Victims_of_crime">>,
       <<"victims_of_disasters", "Victims_of_Disasters">>,
       <<"youth", "Youth">> >>

AcncAreasOfInterest(item) ==
    LET F == AreasOfInterestFields
        K == { F[i][1] : i \in 1..Len(F) }
    IN  [ k \in K |-> Get(item, F[CHOOSE i \in 1..Len(F) : F[i][1] = k][2]) ]

\* One item of transform_acnc_data.
AcncTransformed(item, now) ==
    [ abn |-> Get(item, "ABN"),
      legal_name |-> Get(item, "Charity_Legal_Name"),
      other_organisation_names |-> Get(item, "Other_Organisation_Names"),
      address |-> AcncAddress(item),
      charity_wbsite |-> Get(item, "Charity_Website"),
      date_organisation_established |-> Get(item, "Date_Organisation_Established"),
      registration_date |-> Get(item, "Registration_Date"),
      charity_size |-> Get(item, "Charity_Size"),
      number_of_responsible_persons |-> Get(item, "Number_of_Responsible_Persons"),
      finacial_year_end |-> Get(item, "Financial_Year_End"),
      operates_in |-> AcncOperatesIn(item),
      areas_of_interest |-> AcncAreasOfInterest(item),
      updated_at |-> now ]

\* One item of transform_nsw_assoc_data.
NswTransformed(item, now) ==
    [ organisation_number |-> Get(item, "organisation_number"),
      name |-> Get(item, "name"),
      organisation_type |-> Get(item, "organisation_type"),
      status |-> Get(item, "status"),
      date_registered |-> Get(item, "date_registered"),
      date_removed |-> Get(item, "date_removed"),
      registered_office_address |-> Get(item, "registered_office_address"),
      organisation_id |-> Get(item, "organisation_id"),
      updated_at |-> now ]

transform_abn_data(raw_data, now) ==
    [ i \in 1..Len(raw_data) |-> AbnTransformed(raw_data[i], now) ]

transform_acnc_data(raw_data, now) ==
    [ i \in 1..Len(raw_data) |-> AcncTransformed(raw_data[i], now) ]

transform_nsw_assoc_data(raw_data, now) ==
    [ i \in 1..Len(raw_data) |-> NswTransformed(raw_data[i], now) ]

\* ------------------------------------------------------------------
\* State
\* ------------------------------------------------------------------
VARIABLES
    now,               \* the wall clock read by datetime.now()
    cache,             \* the Redis cache: a dict from key to stored JSON value
    pc,                \* where the sync_all_sources request stands
    state,             \* the <state> argument of the request
    postcodes,         \* local postcodes of sync_all_sources
    futures,           \* the futures of the executor, in submission order
    collected,         \* the futures as_completed has yielded so far
    postcode_stats,    \* local postcode_stats of sync_all_sources
    all_abn_records,   \* the abn_records argument of the merge
    all_acnc_records,  \* the acnc_records argument of the merge
    all_nsw_records,   \* the nsw_records argument of the merge
    merged_records,    \* merged_records returned by the merge
    merge_stats,       \* stats returned by the merge
    response,          \* what the request returned: status code and JSON body
    calls,             \* merge calls made on the same arguments (direct calls)
    merged_again,      \* merged_records returned by the second direct call
    stats_again,       \* stats returned by the second direct call
    request,           \* the sync request served last: route and arguments
    requests,          \* the number of sync requests served
    extractor_calls,   \* the calls of extractor.extract made: source and arguments
    upserted,          \* the data of each loader.upsert_organizations that returned
    csv_files,         \* the files write_merged_records_to_csv wrote, by name
    raised,            \* whether the last direct call of the merge raised
    abr_call,          \* the call of the ABR client under way: its locals
    abr_returned       \* how the calls of the ABR client ended, oldest first

vars == << now, cache, pc, state, postcodes, futures, collected, postcode_stats,
           all_abn_records, all_acnc_records, all_nsw_records, merged_records,
           merge_stats, response, calls, merged_again, stats_again,
           request, requests, extractor_calls, upserted, csv_files,
           raised, abr_call, abr_returned >>

abrVars == << abr_call, abr_returned >>

sourceVars == << request, requests, extractor_calls, upserted, csv_files,
                raised, abr_call, abr_returned >>

syncVars == << cache, pc, state, postcodes, futures, collected, postcode_stats,
               response >>

\* The sequences over S of length at most n.
SeqUpTo(S, n) == UNION { [1..k -> S] : k \in 0..n }

NoStats == InitStats(<<>>, <<>>, <<>>)

NoPostcodeStats ==
    [ total_postcodes |-> 0, processed_postcodes |-> 0,
      failed_postcodes |-> <<>>, by_postcode |-> <<>> ]

NoResponse == [ code |-> 0, body |-> <<>> ]

\* A postcode argument that is not passed (postcodes are written as numbers).
NoPostcode == 0

\* limit=None of _call_search_by_charity (limits are numbers).
NoLimit == -1

\* content = None, res = None before the first attempt.
NoContent == [ kind |-> "none", abns |-> <<>> ]

\* No call of the ABR client is under way.
NoAbrCall ==
    [ op |-> "none", limit |-> NoLimit, pc |-> "idle", attempt |-> 0,
      tried |-> <<>>, slept |-> <<>>, content |-> NoContent ]

\* No sync request has been served.
NoSyncRequest ==
    [ route |-> "none", source |-> None, state |-> None, postcode |-> NoPostcode ]

\* Time passes.  The clock is coarse: it shows one value to all the jobs of a
\* batch, from the first submit to the end of the collection loop.
Tick ==
    /\ now < MaxTime
    /\ pc \notin {"submit", "collect"}
    /\ now' = now + 1
    /\ UNCHANGED << syncVars, all_abn_records, all_acnc_records, all_nsw_records,
                    merged_records, merge_stats, calls, merged_again, stats_again,
                    sourceVars >>

\* ------------------------------------------------------------------
\* Direct calls of merge_organization_records
\* ------------------------------------------------------------------
AbnPool ==
    { [abn |-> <<"1">>, entity_status |-> <<"A">>],
      [abn |-> <<"2">>, entity_status |-> <<"C">>],
      [entity_status |-> <<"A">>] }

AcncPool ==
    { [abn |-> <<"1">>, legal_name |-> <<"a">>],
      [abn |-> <<"2">>, legal_name |-> <<"A", " ">>],
      [abn |-> <<"2">>, legal_name |-> <<>>],
      [abn |-> None, legal_name |-> <<"a">>] }

NswPool ==
    { [name |-> <<" ", "a">>, organisation_number |-> <<"7">>],
      [name |-> <<" ">>, organisation_number |-> <<"9">>],
      [name |-> None, organisation_number |-> <<"8">>] }

\* The state of a program that only calls the merge.
NoRequest ==
    /\ cache = <<>>
    /\ pc = "idle"
    /\ state = <<>>
    /\ postcodes = <<>>
    /\ futures = <<>>
    /\ collected = {}
    /\ postcode_stats = NoPostcodeStats
    /\ response = NoResponse
    /\ request = NoSyncRequest
    /\ requests = 0
    /\ extractor_calls = {}
    /\ upserted = <<>>
    /\ csv_files = <<>>
    /\ raised = FALSE
    /\ abr_call = NoAbrCall
    /\ abr_returned = <<>>

NoCall ==
    /\ calls = 0
    /\ merged_records = <<>>
    /\ merge_stats = NoStats
    /\ merged_again = <<>>
    /\ stats_again = NoStats

MergeInit ==
    /\ now = 1
    /\ all_abn_records \in SeqUpTo(AbnPool, MaxAbn)
    /\ all_acnc_records \in SeqUpTo(AcncPool, MaxAcnc)
    /\ all_nsw_records \in SeqUpTo(NswPool, MaxNsw)
    /\ NoCall
    /\ NoRequest

\* The call with the names of the NSW records normalised in place.
MergeCall_m ==
    /\ calls = 0
    /\ LET r == merge_organization_records(all_abn_records, all_acnc_records,
                                           all_nsw_records, now)
       IN  /\ raised' = r.raised
           /\ merged_records' = IF r.raised THEN merged_records ELSE r.merged_records
           /\ merge_stats' = IF r.raised THEN merge_stats ELSE r.stats
    /\ all_nsw_records' =
           [ i \in 1..Len(all_nsw_records) |->
               IF Truthy(Get(all_nsw_records[i], "name"))
               THEN [all_nsw_records[i] EXCEPT !.name = clean_name(@)]
               ELSE all_nsw_records[i] ]
    /\ calls' = 1
    /\ UNCHANGED << now, syncVars, all_abn_records, all_acnc_records,
                    merged_again, stats_again, request, requests, extractor_calls, upserted, csv_files, abrVars >>

\* merged_records, stats = merge_organization_records(abn, acnc, nsw); a
\* call that raises assigns nothing.
MergeCall ==
    /\ calls = 0
    /\ LET r == merge_organization_records(all_abn_records, all_acnc_records,
                                           all_nsw_records, now)
       IN  /\ raised' = r.raised
           /\ merged_records' = IF r.raised THEN merged_records ELSE r.merged_records
           /\ merge_stats' = IF r.raised THEN merge_stats ELSE r.stats
    /\ calls' = 1
    /\ UNCHANGED << now, syncVars, all_abn_records, all_acnc_records,
                    all_nsw_records, merged_again, stats_again,
                    request, requests, extractor_calls, upserted, csv_files, abrVars >>

MergeNext == MergeCall

SpecMerge == MergeInit /\ [][MergeNext]_vars

\* ------------------------------------------------------------------
\* Two calls of merge_organization_records on the same arguments
\* ------------------------------------------------------------------
TwiceAbnPool ==
    { [abn |-> <<"1">>, entity_status |-> <<"A">>],
      [abn |-> <<"2">>, entity_status |-> <<"C">>] }

TwiceAcncPool ==
    { [abn |-> <<"1">>, legal_name |-> <<"a">>],
      [abn |-> <<"2">>, legal_name |-> <<"A", " ">>],
      [abn |-> <<"2">>, legal_name |-> <<>>] }

TwiceNswPool ==
    { [name |-> <<"a">>, organisation_number |-> <<"7">>],
      [name |-> <<"b">>, organisation_number |-> <<"9">>] }

TwiceInit ==
    /\ now = 1
    /\ all_abn_records \in SeqUpTo(TwiceAbnPool, MaxAbn)
    /\ all_acnc_records \in SeqUpTo(TwiceAcncPool, MaxAcnc)
    /\ all_nsw_records \in SeqUpTo(TwiceNswPool, MaxNsw)
    /\ NoCall
    /\ NoRequest

\* A second call on the same arguments.
MergeAgain ==
    /\ calls = 1
    /\ LET r == merge_organization_records(all_abn_records, all_acnc_records,
                                           all_nsw_records, now)
       IN  /\ raised' = r.raised
           /\ merged_again' = IF r.raised THEN merged_again ELSE r.merged_records
           /\ stats_again' = IF r.raised THEN stats_again ELSE r.stats
    /\ calls' = 2
    /\ UNCHANGED << now, syncVars, all_abn_records, all_acnc_records,
                    all_nsw_records, merged_records, merge_stats,
                    request, requests, extractor_calls, upserted, csv_files, abrVars >>

TwiceNext == Tick \/ MergeCall \/ MergeAgain

SpecMergeTwice == TwiceInit /\ [][TwiceNext]_vars

\* ------------------------------------------------------------------
\* Calls of merge_organization_records on inputs with repeated keys
\* ------------------------------------------------------------------
TiesAbnPool ==
    { [abn |-> <<"1">>, entity_status |-> <<"A">>],
      [abn |-> <<"1">>, entity_status |-> <<"C">>] }

TiesAcncPool ==
    { [abn |-> <<"1">>, legal_name |-> <<"a">>, charity_size |-> <<"S">>],
      [abn |-> <<"1">>, legal_name |-> <<"A", " ">>, charity_size |-> <<"L">>] }

TiesNswPool ==
    { [name |-> <<" ", "a">>, organisation_number |-> <<"7">>],
      [name |-> <<"A">>, organisation_number |-> <<"8">>] }

TiesInit ==
    /\ now = 1
    /\ all_abn_records \in SeqUpTo(TiesAbnPool, MaxAbn)
    /\ all_acnc_records \in SeqUpTo(TiesAcncPool, MaxAcnc)
    /\ all_nsw_records \in SeqUpTo(TiesNswPool, MaxNsw)
    /\ NoCall
    /\ NoRequest

TiesNext == MergeCall

SpecMergeTies == TiesInit /\ [][TiesNext]_vars

\* ------------------------------------------------------------------
\* upload_postcodes, load_postcodes_for_state
\* ------------------------------------------------------------------
\* Postcodes are digit strings of one length, written as the numbers
\* 1..MaxPostcodes; sorted() orders them as numbers.
PostcodePool == 1..MaxPostcodes

\* The state codes a request can carry.
RequestStates == { <<"n", "s", "w">> }

\* f"postcodes:{state_upper}"
PostcodesKey(state_upper) ==
    <<"p", "o", "s", "t", "c", "o", "d", "e", "s", ":">> \o state_upper

\* f'sync_all_{state_upper}'
SyncAllKey(state_upper) ==
    <<"s", "y", "n", "c", "_", "a", "l", "l", "_">> \o state_upper

\* list(dict.fromkeys(postcodes)): the first occurrence of each value.
RECURSIVE Dedup(_)
Dedup(s) ==
    IF s = <<>> THEN <<>>
    ELSE LET d == Dedup(SubSeq(s, 1, Len(s) - 1))
             x == s[Len(s)]
         IN  IF \E i \in 1..Len(d) : d[i] = x THEN d ELSE Append(d, x)

\* Insert x in the ascending sequence s, after the values equal to it.
RECURSIVE Insert(_, _)
Insert(s, x) ==
    IF s = <<>> THEN <<x>>
    ELSE IF x < Head(s) THEN <<x>> \o s
    ELSE <<Head(s)>> \o Insert(Tail(s), x)

\* sorted(s)
RECURSIVE Sorted(_)
Sorted(s) == IF s = <<>> THEN <<>> ELSE Insert(Sorted(SubSeq(s, 1, Len(s) - 1)), s[Len(s)])

\* POST /upload/postcodes/<state> with a file holding the postcodes `file`.
upload_postcodes(st, file) ==
    /\ pc = "idle"
    /\ file # <<>>
    /\ LET state_upper == Upper(st)
           deduped == Dedup(file)
       IN  cache' = DictSet(cache, PostcodesKey(state_upper),
                            [ state |-> state_upper,
                              postcodes |-> deduped,
                              upload_timestamp |-> now,
                              total_postcodes |-> Len(deduped) ])
    /\ UNCHANGED << now, pc, state, postcodes, futures, collected, postcode_stats,
                    response, all_abn_records, all_acnc_records, all_nsw_records,
                    merged_records, merge_stats, calls, merged_again, stats_again,
                    sourceVars >>

\* The same with a missing entry read as an entry without postcodes.
load_postcodes_for_state_m(st) ==
    LET redis_key == PostcodesKey(Upper(st))
    IN  IF redis_key \in DOMAIN cache
        THEN [ ok |-> TRUE, postcodes |-> Sorted(cache[redis_key].postcodes) ]
        ELSE [ ok |-> TRUE, postcodes |-> <<>> ]

\* load_postcodes_for_state: the sorted postcodes, or KeyError.
load_postcodes_for_state(st) ==
    LET redis_key == PostcodesKey(Upper(st))
    IN  IF redis_key \in DOMAIN cache
        THEN [ ok |-> TRUE, postcodes |-> Sorted(cache[redis_key].postcodes) ]
        ELSE [ ok |-> FALSE, postcodes |-> <<>> ]

\* ------------------------------------------------------------------
\* extract_data_for_postcode
\* ------------------------------------------------------------------
\* A call extractor.extract(...) of the extractor of a source; a state that
\* is not passed is None.  The NSW extractor is not given the state.
ExtractorCall(source, st, postcode) ==
    [ source |-> source,
      state |-> IF source = "nsw" THEN None ELSE st,
      postcode |-> postcode ]

\* What the registry of a source holds for a postcode: the raw items the
\* extractor returns when its call succeeds.
ExtractorData(source, postcode) ==
    CASE source = "abn" ->
           IF postcode = 1
           THEN << [abn |-> <<"1">>, entityStatus |-> <<"A">>],
                   [abn |-> <<"2">>, entityStatus |-> <<"A">>] >>
           ELSE << [abn |-> <<"1">>, entityStatus |-> <<"C">>] >>
      [] source = "acnc" ->
           IF postcode = 1
           THEN << [ABN |-> <<"1">>, Charity_Legal_Name |-> <<"a">>] >>
           ELSE << [ABN |-> <<"2">>, Charity_Legal_Name |-> <<"A", " ">>] >>
      [] source = "nsw" ->
           IF postcode = 1
           THEN << [name |-> <<"a">>, organisation_number |-> <<"7">>] >>
           ELSE << [name |-> <<" ", "A">>, organisation_number |-> <<"8">>] >>

\* The value extract_data_for_postcode returns; raises tells whether the
\* extractor call raised.  Every exception is caught and [] is returned.
extract_data_for_postcode(source, postcode, raises, t) ==
    IF source \notin {"nsw", "acnc", "abn"} THEN <<>>
    ELSE IF raises THEN <<>>
    ELSE CASE source = "nsw" -> transform_nsw_assoc_data(ExtractorData(source, postcode), t)
           [] source = "acnc" -> transform_acnc_data(ExtractorData(source, postcode), t)
           [] source = "abn" -> transform_abn_data(ExtractorData(source, postcode), t)

\* ------------------------------------------------------------------
\* write_merged_records_to_csv
\* ------------------------------------------------------------------
\* The field names with the last column left out.
fieldnames_m ==
    << "abn", "is_current", "replaced_from", "entity_status", "effective_from",
       "effective_to", "entity_type_code", "entity_type_description", "anc_status",
       "acnc_status_from", "acnc_status_to", "record_last_updated", "gst", "dgr",
       "main_trading_names", "other_trading_names",
       "main_business_physical_address", "tax_concession_endorsements",
       "legal_name", "other_organisation_names", "charity_website",
       "date_organisation_established", "registration_date", "charity_size",
       "number_of_responsible_persons", "financial_year_end", "operates_in",
       "areas_of_interest", "acnc_address", "nsw_organisation_number", "nsw_name",
       "nsw_organisation_type", "nsw_status", "nsw_date_registered",
       "nsw_date_removed", "nsw_registered_office_address", "nsw_organisation_id",
       "sources" >>

\* fieldnames = [...]
fieldnames ==
    << "abn", "is_current", "replaced_from", "entity_status", "effective_from",
       "effective_to", "entity_type_code", "entity_type_description", "anc_status",
       "acnc_status_from", "acnc_status_to", "record_last_updated", "gst", "dgr",
       "main_trading_names", "other_trading_names",
       "main_business_physical_address", "tax_concession_endorsements",
       "legal_name", "other_organisation_names", "charity_website",
       "date_organisation_established", "registration_date", "charity_size",
       "number_of_responsible_persons", "financial_year_end", "operates_in",
       "areas_of_interest", "acnc_address", "nsw_organisation_number", "nsw_name",
       "nsw_organisation_type", "nsw_status", "nsw_date_registered",
       "nsw_date_removed", "nsw_registered_office_address", "nsw_organisation_id",
       "sources", "updated_at" >>

\* The set of the names of a list.
Names(names) == { names[i] : i \in 1..Len(names) }

\* f'merged_records_{state_upper}.csv'
CsvName(state_upper) ==
    <<"m", "e", "r", "g", "e", "d", "_", "r", "e", "c", "o", "r", "d", "s", "_">>
        \o state_upper \o <<".", "c", "s", "v">>

\* The cell csv.DictWriter writes for a column of a record: the empty string
\* for a key the record lacks (restval), else the value of the key, which
\* the writer turns to text (the empty text for None).
Cell(record, name) == IF name \notin DOMAIN record THEN <<>> ELSE record[name]

\* writer.writerow(record): the row in the order of the header.
Row(record, header) == [i \in 1..Len(header) |-> Cell(record, header[i])]

\* writer.writerow(record) raises ValueError for a record with a key that
\* is not a field name (extrasaction='raise').
RowRaises(record, header) == ~(DOMAIN record \subseteq Names(header))

\* The rows written before the first record that makes writerow raise.
RECURSIVE Rows(_, _)
Rows(records, header) ==
    IF records = <<>> \/ RowRaises(Head(records), header) THEN <<>>
    ELSE <<Row(Head(records), header)>> \o Rows(Tail(records), header)

\* write_merged_records_to_csv(merged_records, filename): the file it leaves
\* (the file is opened with 'w', the header is written, then the rows) and
\* whether a writerow raised.
write_merged_records_to_csv(records) ==
    [ file |-> [ header |-> fieldnames, rows |-> Rows(records, fieldnames) ],
      raised |-> \E i \in 1..Len(records) : RowRaises(records[i], fieldnames) ]

\* ------------------------------------------------------------------
\* sync_all_sources
\* ------------------------------------------------------------------
\* ThreadPoolExecutor(max_workers=5)
max_workers == 5

\* merged_records[:100]
PreviewLimit == 100

\* for source in ['abn', 'acnc', 'nsw']
Sources == <<"abn", "acnc", "nsw">>

Running(fs) == { k \in 1..Len(fs) : fs[k].status = "running" }

SyncInit ==
    /\ now = 1
    /\ cache = <<>>
    /\ pc = "idle"
    /\ state = <<>>
    /\ postcodes = <<>>
    /\ futures = <<>>
    /\ collected = {}
    /\ postcode_stats = NoPostcodeStats
    /\ all_abn_records = <<>>
    /\ all_acnc_records = <<>>
    /\ all_nsw_records = <<>>
    /\ merged_records = <<>>
    /\ merge_stats = NoStats
    /\ response = NoResponse
    /\ calls = 0
    /\ merged_again = <<>>
    /\ stats_again = NoStats
    /\ request = NoSyncRequest
    /\ requests = 0
    /\ extractor_calls = {}
    /\ upserted = <<>>
    /\ csv_files = <<>>
    /\ raised = FALSE
    /\ abr_call = NoAbrCall
    /\ abr_returned = <<>>

mergeVars == << all_abn_records, all_acnc_records, all_nsw_records, merged_records,
                merge_stats, calls, merged_again, stats_again >>

\* The request handled with the cache read under the key of the state as
\* the request wrote it.
SyncStart_m(st) ==
    /\ pc = "idle"
    /\ state' = st
    /\ request' = [ route |-> "sync_all_sources", source |-> None, state |-> st,
                    postcode |-> NoPostcode ]
    /\ requests' = requests + 1
    /\ UNCHANGED << extractor_calls, upserted, csv_files, raised, abrVars >>
    /\ LET state_upper == Upper(st)
           cache_key == SyncAllKey(st)
           loaded == load_postcodes_for_state(state_upper)
       IN  IF cache_key \in DOMAIN cache
           THEN /\ response' = [ code |-> 200, body |-> cache[cache_key] ]
                /\ pc' = "done"
                /\ UNCHANGED << postcodes, postcode_stats >>
           ELSE IF ~loaded.ok
           THEN /\ response' = [ code |-> 404, body |-> [ status |-> "failed" ] ]
                /\ pc' = "done"
                /\ UNCHANGED << postcodes, postcode_stats >>
           ELSE IF loaded.postcodes = <<>>
           THEN /\ response' = [ code |-> 400, body |-> [ status |-> "failed" ] ]
                /\ pc' = "done"
                /\ UNCHANGED << postcodes, postcode_stats >>
           ELSE /\ postcodes' = loaded.postcodes
                /\ postcode_stats' =
                       [ total_postcodes |-> Len(loaded.postcodes),
                         processed_postcodes |-> 0,
                         failed_postcodes |-> <<>>,
                         by_postcode |-> <<>> ]
                /\ pc' = "submit"
                /\ UNCHANGED response
    /\ UNCHANGED << now, cache, futures, collected, mergeVars >>

\* POST /sync/all/<state>, up to the creation of the executor: the cache
\* check, the postcodes of the state, the locals.
SyncStart(st) ==
    /\ pc = "idle"
    /\ state' = st
    /\ request' = [ route |-> "sync_all_sources", source |-> None, state |-> st,
                    postcode |-> NoPostcode ]
    /\ requests' = requests + 1
    /\ UNCHANGED << extractor_calls, upserted, csv_files, raised, abrVars >>
    /\ LET state_upper == Upper(st)
           cache_key == SyncAllKey(state_upper)
           loaded == load_postcodes_for_state(state_upper)
       IN  IF cache_key \in DOMAIN cache
           THEN /\ response' = [ code |-> 200, body |-> cache[cache_key] ]
                /\ pc' = "done"
                /\ UNCHANGED << postcodes, postcode_stats >>
           ELSE IF ~loaded.ok
           THEN /\ response' = [ code |-> 404, body |-> [ status |-> "failed" ] ]
                /\ pc' = "done"
                /\ UNCHANGED << postcodes, postcode_stats >>
           ELSE IF loaded.postcodes = <<>>
           THEN /\ response' = [ code |-> 400, body |-> [ status |-> "failed" ] ]
                /\ pc' = "done"
                /\ UNCHANGED << postcodes, postcode_stats >>
           ELSE /\ postcodes' = loaded.postcodes
                /\ postcode_stats' =
                       [ total_postcodes |-> Len(loaded.postcodes),
                         processed_postcodes |-> 0,
                         failed_postcodes |-> <<>>,
                         by_postcode |-> <<>> ]
                /\ pc' = "submit"
                /\ UNCHANGED response
    /\ UNCHANGED << now, cache, futures, collected, mergeVars >>

\* The n-th submit with the postcode of the first iteration kept.
NthJob_m(pcs, n) ==
    [ postcode |-> pcs[1],
      source |-> Sources[((n - 1) % Len(Sources)) + 1] ]

\* The job of the n-th executor.submit of the two nested loops.
NthJob(pcs, n) ==
    [ postcode |-> pcs[((n - 1) \div Len(Sources)) + 1],
      source |-> Sources[((n - 1) % Len(Sources)) + 1] ]

\* future = executor.submit(...); futures[future] = (source, postcode)
Submit ==
    /\ pc = "submit"
    /\ LET n == Len(futures) + 1
           job == NthJob(postcodes, n)
       IN  /\ futures' = Append(futures,
                  [ source |-> job.source, postcode |-> job.postcode,
                    status |-> "pending", result |-> <<>>,
                    exception |-> FALSE, extractor_raised |-> FALSE ])
           /\ pc' = IF n = Len(postcodes) * Len(Sources) THEN "collect" ELSE "submit"
    /\ UNCHANGED << now, cache, state, postcodes, collected, postcode_stats,
                    response, mergeVars, sourceVars >>

\* A pool that starts a thread for every queued job.
WorkerFree_m(fs) == TRUE

\* A worker of the pool is free to take a job.
WorkerFree(fs) == Cardinality(Running(fs)) < max_workers

\* A worker takes the oldest queued job.
StartJob ==
    /\ \E k \in 1..Len(futures) : futures[k].status = "pending"
    /\ WorkerFree(futures)
    /\ LET k == CHOOSE j \in 1..Len(futures) :
                   /\ futures[j].status = "pending"
                   /\ \A i \in 1..(j - 1) : futures[i].status # "pending"
       IN  futures' = [futures EXCEPT ![k].status = "running"]
    /\ UNCHANGED << now, cache, pc, state, postcodes, collected, postcode_stats,
                    response, mergeVars, sourceVars >>

\* The job of future k ends, and the future of a job whose extractor call
\* raised is never completed.
FinishJob_m(k, raises) ==
    /\ k \in 1..Len(futures)
    /\ futures[k].status = "running"
    /\ futures' = [futures EXCEPT
           ![k].status = IF raises THEN "lost" ELSE "finished",
           ![k].result = extract_data_for_postcode(futures[k].source,
                                                   futures[k].postcode, raises, now),
           ![k].exception = FALSE,
           ![k].extractor_raised = raises]
    /\ extractor_calls' = extractor_calls \cup
           { ExtractorCall(futures[k].source, Upper(state), futures[k].postcode) }
    /\ UNCHANGED << now, cache, pc, state, postcodes, collected, postcode_stats,
                    response, mergeVars, request, requests, upserted, csv_files,
                    raised, abrVars >>

\* The job of future k returns: its extractor call raised or returned.
FinishJob(k, raises) ==
    /\ k \in 1..Len(futures)
    /\ futures[k].status = "running"
    /\ futures' = [futures EXCEPT
           ![k].status = "finished",
           ![k].result = extract_data_for_postcode(futures[k].source,
                                                   futures[k].postcode, raises, now),
           ![k].exception = FALSE,
           ![k].extractor_raised = raises]
    /\ extractor_calls' = extractor_calls \cup
           { ExtractorCall(futures[k].source, Upper(state), futures[k].postcode) }
    /\ UNCHANGED << now, cache, pc, state, postcodes, collected, postcode_stats,
                    response, mergeVars, request, requests, upserted, csv_files,
                    raised, abrVars >>

\* The entry of by_postcode is created on the first result of a postcode,
\* here on every result.
EnsureEntry_m(by_postcode, postcode) ==
    DictSet(by_postcode, postcode, [abn |-> 0, acnc |-> 0, nsw |-> 0, total |-> 0])

\* if postcode not in postcode_stats['by_postcode']: ... = {all zero}
EnsureEntry(by_postcode, postcode) ==
    IF postcode \in DOMAIN by_postcode THEN by_postcode
    ELSE DictSet(by_postcode, postcode, [abn |-> 0, acnc |-> 0, nsw |-> 0, total |-> 0])

\* The counts of a postcode with a total that leaves the NSW count out.
Counted_m(entry, source, records) ==
    LET e == [entry EXCEPT ![source] = Len(records)]
    IN  [e EXCEPT !.total = e.abn + e.acnc]

\* The counts of a postcode after `records` came in for `source`.
Counted(entry, source, records) ==
    LET e == [entry EXCEPT ![source] = Len(records)]
    IN  [e EXCEPT !.total = e.abn + e.acnc + e.nsw]

\* One iteration of `for future in as_completed(futures)` on future k.
Collect(k) ==
    /\ pc = "collect"
    /\ k \in 1..Len(futures)
    /\ k \notin collected
    /\ futures[k].status = "finished"
    /\ collected' = collected \cup {k}
    /\ LET source == futures[k].source
           postcode == futures[k].postcode
           records == futures[k].result
       IN  IF futures[k].exception
           THEN /\ postcode_stats' =
                       [postcode_stats EXCEPT !.failed_postcodes =
                           IF \E i \in 1..Len(@) : @[i] = postcode THEN @
                           ELSE Append(@, postcode)]
                /\ UNCHANGED << all_abn_records, all_acnc_records, all_nsw_records >>
           ELSE /\ postcode_stats' =
                       [postcode_stats EXCEPT !.by_postcode =
                           LET bp == EnsureEntry(@, postcode)
                           IN  [bp EXCEPT ![postcode] = Counted(@, source, records)]]
                /\ all_abn_records' =
                       IF source = "abn" THEN all_abn_records \o records
                       ELSE all_abn_records
                /\ all_acnc_records' =
                       IF source = "acnc" THEN all_acnc_records \o records
                       ELSE all_acnc_records
                /\ all_nsw_records' =
                       IF source = "nsw" THEN all_nsw_records \o records
                       ELSE all_nsw_records
    /\ UNCHANGED << now, cache, pc, state, postcodes, futures, response,
                    merged_records, merge_stats, calls, merged_again, stats_again,
                    sourceVars >>

\* The collection loop ends on the first result.
JoinBarrier_m(fs, coll) == coll # {}

\* The loop over as_completed has yielded every future; the wait of the
\* executor's with-block then returns at once.
JoinBarrier(fs, coll) == coll = 1..Len(fs)

\* Leaving the with-block; processed_postcodes is counted.
Join ==
    /\ pc = "collect"
    /\ JoinBarrier(futures, collected)
    /\ postcode_stats' =
           [postcode_stats EXCEPT !.processed_postcodes =
               Cardinality({ i \in 1..Len(postcodes) :
                   /\ postcodes[i] \in DOMAIN postcode_stats.by_postcode
                   /\ postcode_stats.by_postcode[postcodes[i]].total > 0 })]
    /\ pc' = "merge"
    /\ UNCHANGED << now, cache, state, postcodes, futures, collected, response,
                    mergeVars, sourceVars >>

\* merged_records, merge_stats = merge_organization_records(...); an
\* exception of the merge ends the request in the handler of Exception.
MergeRecords ==
    /\ pc = "merge"
    /\ LET r == merge_organization_records(all_abn_records, all_acnc_records,
                                           all_nsw_records, now)
       IN  IF r.raised
           THEN /\ response' = [ code |-> 500, body |-> [ status |-> "failed" ] ]
                /\ pc' = "done"
                /\ UNCHANGED << merged_records, merge_stats >>
           ELSE /\ merged_records' = r.merged_records
                /\ merge_stats' = r.stats
                /\ pc' = "load"
                /\ UNCHANGED response
    /\ UNCHANGED << now, cache, state, postcodes, futures, collected,
                    postcode_stats, all_abn_records, all_acnc_records,
                    all_nsw_records, calls, merged_again, stats_again, sourceVars >>

Min(a, b) == IF a < b THEN a ELSE b

\* How the export and the upsert of a non-empty merge can end: both return,
\* the CSV file cannot be opened, or the upsert raises.
SinkFailures == { "none", "csv", "upsert" }

\* The response data is stored in the cache before the sink is called, so
\* it stays there when the sink raises.
LoadAndRespond_m(failure) ==
    /\ pc = "load"
    /\ LET state_upper == Upper(state)
           filename == CsvName(state_upper)
           written == write_merged_records_to_csv(merged_records)
           response_data ==
               [ status |-> "success",
                 state |-> state_upper,
                 postcode_stats |-> postcode_stats,
                 merge_stats |-> merge_stats,
                 merged_records_count |-> Len(merged_records),
                 loader_result |-> IF merged_records # <<>> THEN "upserted"
                                   ELSE "No records to load",
                 merged_records |->
                     SubSeq(merged_records, 1, Min(PreviewLimit, Len(merged_records))),
                 total_merged_records |-> Len(merged_records),
                 processing_time |-> now ]
       IN  /\ csv_files' =
                  IF merged_records # <<>> /\ failure # "csv"
                  THEN DictSet(csv_files, filename, written.file)
                  ELSE csv_files
           /\ IF merged_records # <<>> /\ (failure # "none" \/ written.raised)
              THEN /\ response' = [ code |-> 500, body |-> [ status |-> "failed" ] ]
                   /\ cache' = DictSet(cache, SyncAllKey(state_upper), response_data)
                   /\ UNCHANGED upserted
              ELSE /\ response' = [ code |-> 200, body |-> response_data ]
                   /\ cache' = DictSet(cache, SyncAllKey(state_upper), response_data)
                   /\ upserted' = IF merged_records # <<>>
                                  THEN Append(upserted, merged_records) ELSE upserted
    /\ pc' = "done"
    /\ UNCHANGED << now, state, postcodes, futures, collected, postcode_stats,
                    mergeVars, request, requests, extractor_calls, raised, abrVars >>

\* The CSV export and the upsert of the merged records, the response, the
\* cache entry.  An exception of the export or of the upsert ends the
\* request in the handler of Exception.
LoadAndRespond(failure) ==
    /\ pc = "load"
    /\ LET state_upper == Upper(state)
           filename == CsvName(state_upper)
           written == write_merged_records_to_csv(merged_records)
           response_data ==
               [ status |-> "success",
                 state |-> state_upper,
                 postcode_stats |-> postcode_stats,
                 merge_stats |-> merge_stats,
                 merged_records_count |-> Len(merged_records),
                 loader_result |-> IF merged_records # <<>> THEN "upserted"
                                   ELSE "No records to load",
                 merged_records |->
                     SubSeq(merged_records, 1, Min(PreviewLimit, Len(merged_records))),
                 total_merged_records |-> Len(merged_records),
                 processing_time |-> now ]
       IN  /\ csv_files' =
                  IF merged_records # <<>> /\ failure # "csv"
                  THEN DictSet(csv_files, filename, written.file)
                  ELSE csv_files
           /\ IF merged_records # <<>> /\ (failure # "none" \/ written.raised)
              THEN /\ response' = [ code |-> 500, body |-> [ status |-> "failed" ] ]
                   /\ UNCHANGED << cache, upserted >>
              ELSE /\ response' = [ code |-> 200, body |-> response_data ]
                   /\ cache' = DictSet(cache, SyncAllKey(state_upper), response_data)
                   /\ upserted' = IF merged_records # <<>>
                                  THEN Append(upserted, merged_records) ELSE upserted
    /\ pc' = "done"
    /\ UNCHANGED << now, state, postcodes, futures, collected, postcode_stats,
                    mergeVars, request, requests, extractor_calls, raised, abrVars >>

SyncNext ==
    \/ Tick
    \/ \E st \in RequestStates, file \in SeqUpTo(PostcodePool, MaxPostcodes) :
           upload_postcodes(st, file)
    \/ \E st \in RequestStates : SyncStart(st)
    \/ Submit
    \/ StartJob
    \/ \E k \in 1..Len(futures), raises \in BOOLEAN : FinishJob(k, raises)
    \/ \E k \in 1..Len(futures) : Collect(k)
    \/ Join
    \/ MergeRecords
    \/ \E failure \in SinkFailures : LoadAndRespond(failure)

Spec == SyncInit /\ [][SyncNext]_vars

\* The steps of a request that the pool, the extractors and the handler take
\* on their own, the call of the merge aside: the handler runs on, a free
\* worker takes a queued job, an extractor call comes back, as_completed
\* yields a finished future.
Progress ==
    \/ Submit
    \/ StartJob
    \/ \E k \in 1..Len(futures), raises \in BOOLEAN : FinishJob(k, raises)
    \/ \E k \in 1..Len(futures) : Collect(k)
    \/ Join
    \/ \E failure \in SinkFailures : LoadAndRespond(failure)

FairNext ==
    \/ \E st \in RequestStates, file \in SeqUpTo(PostcodePool, MaxPostcodes) :
           upload_postcodes(st, file)
    \/ \E st \in RequestStates : SyncStart(st)
    \/ Progress
    \/ MergeRecords

\* The call of the merge returns: the request does not stay in it for ever.
\* MergeRecords is the only step at pc = "merge" and is enabled there, so
\* this is what WF_vars(MergeRecords) says.
MergeReturns == []<>(pc # "merge")

\* sync_all_sources with threads that are scheduled and calls that
\* terminate; the clock stands still.
SpecFair == SyncInit /\ [][FairNext]_vars /\ WF_vars(Progress) /\ MergeReturns

\* ------------------------------------------------------------------
\* Requests to sync_all_sources, one after the other
\* ------------------------------------------------------------------
\* The state codes of the requests: one state in two letter cases.
RepeatStates == { <<"n", "s", "w">>, <<"N", "s", "w">> }

\* The response is sent and the locals of the call are gone: the server is
\* ready for the next request.  The cache and the sink keep what they hold.
Return ==
    /\ pc = "done"
    /\ requests < MaxRequests
    /\ pc' = "idle"
    /\ postcodes' = <<>>
    /\ futures' = <<>>
    /\ collected' = {}
    /\ postcode_stats' = NoPostcodeStats
    /\ all_abn_records' = <<>>
    /\ all_acnc_records' = <<>>
    /\ all_nsw_records' = <<>>
    /\ merged_records' = <<>>
    /\ merge_stats' = NoStats
    /\ response' = NoResponse
    /\ UNCHANGED << now, cache, state, calls, merged_again, stats_again, sourceVars >>

RepeatNext ==
    \/ Tick
    \/ \E st \in RepeatStates, file \in SeqUpTo(PostcodePool, MaxFile) :
           upload_postcodes(st, file)
    \/ \E st \in RepeatStates : SyncStart(st)
    \/ Submit
    \/ StartJob
    \/ \E k \in 1..Len(futures), raises \in BOOLEAN : FinishJob(k, raises)
    \/ \E k \in 1..Len(futures) : Collect(k)
    \/ Join
    \/ MergeRecords
    \/ \E failure \in SinkFailures : LoadAndRespond(failure)
    \/ Return

SpecRepeat == SyncInit /\ [][RepeatNext]_vars

\* ------------------------------------------------------------------
\* sync_data, sync_data_with_state, sync_data_with_location
\* ------------------------------------------------------------------
\* The <source> of these routes is a string: the sequence of its characters.
SourceNsw == <<"n", "s", "w">>

SourceAcnc == <<"a", "c", "n", "c">>

SourceAbn == <<"a", "b", "n">>

ValidSources == { SourceNsw, SourceAcnc, SourceAbn }

\* The sources a request can name: the valid ones and 'abn_nsw'.
SourcePool == ValidSources \cup { SourceAbn \o <<"_">> \o SourceNsw }

\* f'sync_{source}'
SyncKey(source) == <<"s", "y", "n", "c", "_">> \o source

\* f'sync_{source}_{state}'
SyncStateKey(source, st) == SyncKey(source) \o <<"_">> \o st

\* f'sync_{source}_{state}_{postcode}'
SyncLocationKey(source, st, postcode) ==
    SyncStateKey(source, st) \o <<"_">> \o <<postcode>>

\* state_postcodes.get(state.upper(), '2000') of sync_data_with_state
DefaultPostcode(st) ==
    LET u == Upper(st) IN
    CASE u = <<"N", "S", "W">> -> 2000
      [] u = <<"V", "I", "C">> -> 3000
      [] u = <<"Q", "L", "D">> -> 4000
      [] u = <<"S", "A">> -> 5000
      [] u = <<"W", "A">> -> 6000
      [] u = <<"T", "A", "S">> -> 7000
      [] u = <<"N", "T">> -> 800
      [] u = <<"A", "C", "T">> -> 2600
      [] OTHER -> 2000

\* How a call of extractor.extract can end.
Outcomes == { "raises", "empty", "data" }

\* The name of a valid source as the extraction jobs write it.
SourceName(source) ==
    CASE source = SourceNsw -> "nsw"
      [] source = SourceAcnc -> "acnc"
      [] source = SourceAbn -> "abn"

\* transformer.transform_<source>_data(extractor.extract(...)) of a call
\* that returned.
TransformedData(source, postcode, outcome, t) ==
    LET raw_data == IF outcome = "data" THEN ExtractorData(SourceName(source), postcode)
                    ELSE <<>>
    IN  CASE source = SourceNsw -> transform_nsw_assoc_data(raw_data, t)
          [] source = SourceAcnc -> transform_acnc_data(raw_data, t)
          [] source = SourceAbn -> transform_abn_data(raw_data, t)

\* The body the three routes share; a cached list is returned when it is
\* not empty (`if cached_data:`).  req is the request, call the extractor
\* call its source branch makes, extra the keys its success body adds, and
\* refuse_empty tells whether the ACNC branch returns 400 on no data.
SyncSource(req, cache_key, call, extra, refuse_empty, outcome, sink_raises) ==
    /\ pc = "idle"
    /\ requests < MaxRequests
    /\ request' = req
    /\ requests' = requests + 1
    /\ LET transformed_data == TransformedData(req.source, call.postcode, outcome, now)
       IN  IF cache_key \in DOMAIN cache /\ Len(cache[cache_key]) > 0
           THEN /\ response' = [ code |-> 200, body |-> cache[cache_key] ]
                /\ UNCHANGED << cache, extractor_calls, upserted >>
           ELSE IF req.source \notin ValidSources
           THEN /\ response' = [ code |-> 400, body |-> [ error |-> "Invalid source" ] ]
                /\ UNCHANGED << cache, extractor_calls, upserted >>
           ELSE /\ extractor_calls' = extractor_calls \cup {call}
                /\ IF outcome = "raises"
                   THEN /\ response' = [ code |-> 500, body |-> [ status |-> "failed" ] ]
                        /\ UNCHANGED << cache, upserted >>
                   ELSE IF refuse_empty /\ req.source = SourceAcnc /\ transformed_data = <<>>
                   THEN /\ response' = [ code |-> 400, body |-> [ status |-> "failed" ] ]
                        /\ UNCHANGED << cache, upserted >>
                   ELSE IF sink_raises
                   THEN /\ response' = [ code |-> 500, body |-> [ status |-> "failed" ] ]
                        /\ UNCHANGED << cache, upserted >>
                   ELSE /\ upserted' = Append(upserted, transformed_data)
                        /\ cache' = DictSet(cache, cache_key, transformed_data)
                        /\ response' =
                               [ code |-> 200,
                                 body |-> [ status |-> "success",
                                            source |-> req.source,
                                            records_processed |-> Len(transformed_data),
                                            data |-> transformed_data ] @@ extra ]
    /\ UNCHANGED << now, pc, state, postcodes, futures, collected, postcode_stats,
                    mergeVars, csv_files, raised, abrVars >>

\* POST /sync/<source>
sync_data(source, outcome, sink_raises) ==
    SyncSource([ route |-> "sync_data", source |-> source, state |-> None,
                 postcode |-> NoPostcode ],
               SyncKey(source),
               [ source |-> source, state |-> None, postcode |-> NoPostcode ],
               <<>>, TRUE, outcome, sink_raises)

\* POST /sync/<source>/<state>
sync_data_with_state(source, st, outcome, sink_raises) ==
    SyncSource([ route |-> "sync_data_with_state", source |-> source, state |-> st,
                 postcode |-> NoPostcode ],
               SyncStateKey(source, st),
               [ source |-> source,
                 state |-> IF source = SourceNsw THEN None ELSE st,
                 postcode |-> IF source = SourceAbn THEN DefaultPostcode(st)
                              ELSE NoPostcode ],
               [ state |-> st ], FALSE, outcome, sink_raises)

\* POST /sync/<source>/<state>/<postcode>
sync_data_with_location(source, st, postcode, outcome, sink_raises) ==
    SyncSource([ route |-> "sync_data_with_location", source |-> source, state |-> st,
                 postcode |-> postcode ],
               SyncLocationKey(source, st, postcode),
               [ source |-> source,
                 state |-> IF source = SourceNsw THEN None ELSE st,
                 postcode |-> postcode ],
               [ state |-> st, postcode |-> postcode ], FALSE, outcome, sink_raises)

SourceInit ==
    /\ now = 1
    /\ all_abn_records = <<>>
    /\ all_acnc_records = <<>>
    /\ all_nsw_records = <<>>
    /\ NoCall
    /\ NoRequest

SourceNext ==
    \/ \E source \in SourcePool, outcome \in Outcomes, sink_raises \in BOOLEAN :
           sync_data(source, outcome, sink_raises)
    \/ \E source \in SourcePool, st \in RequestStates, outcome \in Outcomes,
          sink_raises \in BOOLEAN :
           sync_data_with_state(source, st, outcome, sink_raises)
    \/ \E source \in SourcePool, st \in RequestStates, postcode \in PostcodePool,
          outcome \in Outcomes, sink_raises \in BOOLEAN :
           sync_data_with_location(source, st, postcode, outcome, sink_raises)

SpecSource == SourceInit /\ [][SourceNext]_vars

\* ------------------------------------------------------------------
\* ABRClient._call_search_by_charity, ABRClient._lookup_abn_details
\* ------------------------------------------------------------------
max_retries == 3

SearchByCharity == "_call_search_by_charity"
SearchByABN == "_lookup_abn_details"

\* What one call of the SOAP service does: the transport stores a response
\* that is ok, or one with an error status (falsy), or the call raises a
\* RequestException, or it raises another exception (a zeep Fault).
AttemptOutcomes == { "response", "error_response", "request_exception", "fault" }

\* The content of a response: absent, not XML, or a document with the texts
\* of its abn elements.
ContentPool ==
    { NoContent,
      [ kind |-> "malformed", abns |-> <<>> ],
      [ kind |-> "xml", abns |-> << <<"1">>, <<>>, <<"2">> >> ] }

\* The limit arguments of a search.
LimitPool == { NoLimit, 1 }

\* except RequestException: the exceptions the loop retries after, here
\* every outcome but a response.
Retryable_m(outcome) == outcome # "response"

\* except RequestException: the exceptions the loop retries after.
Retryable(outcome) == outcome = "request_exception"

\* time.sleep(2 ** attempt)
Backoff(attempt) == 2 ^ attempt

\* [abn.text for abn in abn_list if abn.text]
RECURSIVE AbnTexts(_)
AbnTexts(abns) ==
    IF abns = <<>> THEN <<>>
    ELSE LET rest == AbnTexts(SubSeq(abns, 1, Len(abns) - 1))
             text == abns[Len(abns)]
         IN  IF text # <<>> THEN Append(rest, text) ELSE rest

\* abns[:limit] if limit is not None
Limited(abns, limit) ==
    IF limit = NoLimit THEN abns
    ELSE SubSeq(abns, 1, IF limit < Len(abns) THEN limit ELSE Len(abns))

\* The call under way ends: it returned the value or raised the exception.
AbrEnd(call, outcome, value) ==
    /\ abr_returned' = Append(abr_returned,
           [ op |-> call.op, limit |-> call.limit, outcome |-> outcome,
             value |-> value, tried |-> call.tried, slept |-> call.slept ])
    /\ abr_call' = NoAbrCall

\* Entering _call_search_by_charity(params, limit) or
\* _lookup_abn_details(abn): max_retries, content = None, the first attempt.
AbrCall(op, limit) ==
    /\ abr_call.pc = "idle"
    /\ Len(abr_returned) < MaxAbrCalls
    /\ abr_call' = [ NoAbrCall EXCEPT !.op = op, !.limit = limit, !.pc = "try" ]
    /\ UNCHANGED abr_returned
    /\ UNCHANGED << now, syncVars, mergeVars, request, requests, extractor_calls,
                    upserted, csv_files, raised >>

\* The body of the try block of one attempt, and the except clause.
AbrAttempt(outcome, content) ==
    /\ abr_call.pc = "try"
    /\ LET call == [ abr_call EXCEPT !.tried = Append(@, outcome) ]
       IN  IF outcome = "response"
           THEN /\ abr_call' = [ call EXCEPT !.content = content, !.pc = "after" ]
                /\ UNCHANGED abr_returned
           ELSE IF ~Retryable(outcome)
           THEN AbrEnd(call, "raised",
                       IF outcome = "error_response" THEN <<"RuntimeError">>
                       ELSE IF outcome = "fault" THEN <<"Fault">>
                       ELSE <<"RequestException">>)
           ELSE IF call.attempt = max_retries - 1
           THEN IF call.op = SearchByCharity
                THEN AbrEnd(call, "raised", <<"RequestException">>)
                ELSE AbrEnd(call, "returned", None)
           ELSE /\ abr_call' = [ call EXCEPT !.pc = "sleep" ]
                /\ UNCHANGED abr_returned
    /\ UNCHANGED << now, syncVars, mergeVars, request, requests, extractor_calls,
                    upserted, csv_files, raised >>

\* time.sleep(2 ** attempt) returns and the for loop takes its next value,
\* or ends.
AbrSleep ==
    /\ abr_call.pc = "sleep"
    /\ abr_call' = [ abr_call EXCEPT
           !.slept = Append(@, Backoff(abr_call.attempt)),
           !.attempt = @ + 1,
           !.pc = IF abr_call.attempt + 1 < max_retries THEN "try" ELSE "after" ]
    /\ UNCHANGED abr_returned
    /\ UNCHANGED << now, syncVars, mergeVars, request, requests, extractor_calls,
                    upserted, csv_files, raised >>

\* After the loop: the test of the content, the parse, the return value.  Of
\* the dict that the lookup returns only its being a dict is kept.
AbrAfterLoop ==
    /\ abr_call.pc = "after"
    /\ IF abr_call.content.kind = "none"
       THEN IF abr_call.op = SearchByCharity
            THEN AbrEnd(abr_call, "raised", <<"RuntimeError">>)
            ELSE AbrEnd(abr_call, "returned", None)
       ELSE IF abr_call.content.kind = "malformed"
       THEN AbrEnd(abr_call, "raised", <<"ParseError">>)
       ELSE IF abr_call.op = SearchByCharity
       THEN AbrEnd(abr_call, "returned",
                   Limited(AbnTexts(abr_call.content.abns), abr_call.limit))
       ELSE AbrEnd(abr_call, "returned", <<"dict">>)
    /\ UNCHANGED << now, syncVars, mergeVars, request, requests, extractor_calls,
                    upserted, csv_files, raised >>

\* A client that has made no call.
AbrInit ==
    /\ now = 1
    /\ all_abn_records = <<>>
    /\ all_acnc_records = <<>>
    /\ all_nsw_records = <<>>
    /\ NoCall
    /\ NoRequest

AbrNext ==
    \/ \E limit \in LimitPool : AbrCall(SearchByCharity, limit)
    \/ AbrCall(SearchByABN, NoLimit)
    \/ \E outcome \in AttemptOutcomes, content \in ContentPool :
           AbrAttempt(outcome, content)
    \/ AbrSleep
    \/ AbrAfterLoop

SpecAbr == AbrInit /\ [][AbrNext]_vars

\* ------------------------------------------------------------------
\* Properties of merge_organization_records (checked under SpecMerge)
\* ------------------------------------------------------------------
Indices(records) == 1..Len(records)

HasSource(record, source) ==
    \E i \in 1..Len(record.sources) : record.sources[i] = source

\* C1: after a merge, no two merged records carry the same non-null abn,
\* also when an abn is repeated among the ACNC records and no ABN record
\* has it.
C1_UniqueAbn ==
    calls >= 1 =>
        \A i, j \in Indices(merged_records) :
            (i # j /\ merged_records[i].abn # None)
                => merged_records[i].abn # merged_records[j].abn

\* C2: after a merge, no two NSW-only merged records (sources = ['nsw']) have
\* the same trimmed, upper-cased nsw_name, also when a name is repeated among
\* the NSW records.
C2_UniqueNswOnlyName ==
    calls >= 1 =>
        \A i, j \in Indices(merged_records) :
            ( /\ i # j
              /\ merged_records[i].sources = <<"nsw">>
              /\ merged_records[j].sources = <<"nsw">> )
                => clean_name(merged_records[i].nsw_name)
                       # clean_name(merged_records[j].nsw_name)

\* C8: the NSW fields of one normalized name are merged into at most one
\* merged record: an ABN-seeded record takes them only if the name of its
\* ACNC match is in the NSW lookup and no earlier record consumed it.
C8_NswNameMergedOnce ==
    calls >= 1 =>
        \A i, j \in Indices(merged_records) :
            ( /\ i # j
              /\ HasSource(merged_records[i], "nsw")
              /\ HasSource(merged_records[j], "nsw")
              /\ HasSource(merged_records[i], "acnc")
              /\ HasSource(merged_records[j], "acnc") )
                => clean_name(merged_records[i].nsw_name)
                       # clean_name(merged_records[j].nsw_name)

\* The merged records whose first source is `source`: the records a pass
\* of the merge emitted.
EmittedBy(records, source) ==
    Cardinality({ i \in Indices(records) : records[i].sources[1] = source })

\* C9: stats['merged_records'] is the number of merged records, and each
\* pass's records add up from its counters: ABN-seeded = abn_only +
\* (abn_acnc_matches - all_source_matches) + all_source_matches; ACNC-seeded
\* = acnc_only + (acnc_nsw_matches - all_source_matches); NSW-seeded =
\* nsw_only.
C9_Conservation ==
    calls >= 1 =>
        /\ merge_stats.merged_records = Len(merged_records)
        /\ merge_stats.merged_records =
               EmittedBy(merged_records, "abn") + EmittedBy(merged_records, "acnc")
                   + EmittedBy(merged_records, "nsw")
        /\ EmittedBy(merged_records, "abn") =
               merge_stats.abn_only
                   + (merge_stats.abn_acnc_matches - merge_stats.all_source_matches)
                   + merge_stats.all_source_matches
        /\ EmittedBy(merged_records, "acnc") =
               merge_stats.acnc_only
                   + (merge_stats.acnc_nsw_matches - merge_stats.all_source_matches)
        /\ EmittedBy(merged_records, "nsw") = merge_stats.nsw_only

\* A merge in which each pass emitted a record, one of them matched on ABN
\* and ACNC without NSW and one on ACNC and NSW.
C9_Witness ==
    /\ calls >= 1
    /\ \E i, j, k \in Indices(merged_records) :
           /\ merged_records[i].sources = <<"abn", "acnc">>
           /\ merged_records[j].sources = <<"acnc", "nsw">>
           /\ merged_records[k].sources = <<"nsw">>

WithoutUpdatedAt(records) ==
    [ i \in Indices(records) |-> [records[i] EXCEPT !.updated_at = 0] ]

\* C10: two calls of the merge on the same arguments return the same
\* statistics and the same merged records in the same order, field for
\* field, updated_at aside.
C10_Deterministic ==
    calls = 2 =>
        /\ stats_again = merge_stats
        /\ WithoutUpdatedAt(merged_again) = WithoutUpdatedAt(merged_records)

\* Two calls at different readings of the clock that each emitted records
\* of all three passes.
C10_Witness ==
    /\ calls = 2
    /\ merged_again # merged_records
    /\ EmittedBy(merged_records, "abn") > 0
    /\ EmittedBy(merged_records, "acnc") > 0
    /\ EmittedBy(merged_records, "nsw") > 0

\* The reorderings of a sequence.
Reorderings(s) ==
    { [i \in 1..Len(s) |-> s[f[i]]] : f \in Permutations(1..Len(s)) }

\* No two records of the sequence carry the same non-empty abn.
UniqueAbns(records) ==
    \A i, j \in Indices(records) :
        (i # j /\ Truthy(Get(records[i], "abn")))
            => Get(records[i], "abn") # Get(records[j], "abn")

\* No two records of the sequence carry names with the same normalization.
UniqueNames(records) ==
    \A i, j \in Indices(records) :
        (i # j /\ Truthy(Get(records[i], "name")) /\ Truthy(Get(records[j], "name")))
            => clean_name(records[i]["name"]) # clean_name(records[j]["name"])

UniqueInputs ==
    /\ UniqueAbns(all_abn_records)
    /\ UniqueAbns(all_acnc_records)
    /\ UniqueNames(all_nsw_records)

\* C11: when no abn repeats within the ABN records or within the ACNC
\* records and no normalized name repeats within the NSW records, the merge
\* of any reordering of the three inputs returns the same statistics, counter
\* for counter.
C11_OrderInsensitiveStats ==
    (calls >= 1 /\ UniqueInputs) =>
        \A a \in Reorderings(all_abn_records) :
            \A c \in Reorderings(all_acnc_records) :
                \A n \in Reorderings(all_nsw_records) :
                    merge_organization_records(a, c, n, now).stats = merge_stats

\* A merge of unique inputs in which two ACNC records competed for one NSW
\* name: a reordering changes which of them took it.
C11_Witness ==
    /\ calls >= 1
    /\ UniqueInputs
    /\ Len(all_acnc_records) >= 2
    /\ merge_stats.acnc_nsw_matches = 1
    /\ merge_stats.acnc_only = 1
    /\ \E c \in Reorderings(all_acnc_records) :
           WithoutUpdatedAt(merge_organization_records(
               all_abn_records, c, all_nsw_records, now).merged_records)
               # WithoutUpdatedAt(merged_records)
    /\ \E i \in Indices(merged_records) :
           merged_records[i].sources = <<"acnc", "nsw">>

\* The non-empty abns of a sequence of records.
AbnsOf(records) ==
    { Get(records[i], "abn") : i \in { j \in Indices(records) : Truthy(Get(records[j], "abn")) } }

\* The last record of the sequence that carries abn a.
LastWithAbn(records, a) ==
    records[CHOOSE i \in Indices(records) :
                /\ Get(records[i], "abn") = a
                /\ \A j \in Indices(records) : j > i => Get(records[j], "abn") # a]

\* The legal_name of the ACNC record, normalized, is the normalized name of
\* an NSW record of the input.
NameInNsw(acnc_record) ==
    /\ Truthy(Get(acnc_record, "legal_name"))
    /\ \E k \in Indices(all_nsw_records) :
           /\ Truthy(Get(all_nsw_records[k], "name"))
           /\ clean_name(all_nsw_records[k]["name"]) = clean_name(acnc_record["legal_name"])

\* The merged record seeded from the ABN record of abn a.
AbnSeeded(a) ==
    CHOOSE i \in Indices(merged_records) :
        merged_records[i].abn = a /\ merged_records[i].sources[1] = "abn"

\* The normalized name was merged into an ABN-seeded record emitted before
\* the record of abn a.
ConsumedBefore(name, a) ==
    \E i \in Indices(merged_records) :
        /\ i < AbnSeeded(a)
        /\ HasSource(merged_records[i], "nsw")
        /\ clean_name(merged_records[i].nsw_name) = name

\* Exactly one merged record carries abn a, from all three sources.
OneThreeWayRecord(a) ==
    /\ Cardinality({ i \in Indices(merged_records) : merged_records[i].abn = a }) = 1
    /\ \A i \in Indices(merged_records) :
           merged_records[i].abn = a => merged_records[i].sources = <<"abn", "acnc", "nsw">>

\* Each record adds one to the counter of each match it made.
MatchesCounted ==
    /\ merge_stats.all_source_matches =
           Cardinality({ i \in Indices(merged_records) :
               merged_records[i].sources = <<"abn", "acnc", "nsw">> })
    /\ merge_stats.abn_acnc_matches =
           Cardinality({ i \in Indices(merged_records) :
               merged_records[i].sources[1] = "abn" /\ HasSource(merged_records[i], "acnc") })
    /\ merge_stats.acnc_nsw_matches =
           Cardinality({ i \in Indices(merged_records) :
               HasSource(merged_records[i], "acnc") /\ HasSource(merged_records[i], "nsw") })

\* C13 (as stated): an abn of the ABN records that is the abn of some ACNC
\* record whose normalized legal_name is the normalized name of an NSW record
\* not consumed before gets exactly one merged record, with sources
\* [abn, acnc, nsw], counted once in abn_acnc_matches, acnc_nsw_matches and
\* all_source_matches.
C13_ThreeWayMatchAnyAcnc ==
    calls >= 1 =>
        /\ MatchesCounted
        /\ \A a \in AbnsOf(all_abn_records) :
               \A i \in Indices(all_acnc_records) :
                   ( /\ Get(all_acnc_records[i], "abn") = a
                     /\ NameInNsw(all_acnc_records[i])
                     /\ ~ConsumedBefore(clean_name(all_acnc_records[i]["legal_name"]), a) )
                       => OneThreeWayRecord(a)

\* C13 (amended): the same, for the ACNC record the lookup holds for the
\* abn, which is the last ACNC record that carries it.
C13_ThreeWayMatch ==
    calls >= 1 =>
        /\ MatchesCounted
        /\ \A a \in AbnsOf(all_abn_records) \cap AbnsOf(all_acnc_records) :
               LET acnc_record == LastWithAbn(all_acnc_records, a) IN
               ( /\ NameInNsw(acnc_record)
                 /\ ~ConsumedBefore(clean_name(acnc_record["legal_name"]), a) )
                   => OneThreeWayRecord(a)

\* A merge with a three-way match through the last of two ACNC records of
\* the same abn, the first of which has no name.
C13_Witness ==
    /\ calls >= 1
    /\ merge_stats.all_source_matches = 1
    /\ \E a \in AbnsOf(all_abn_records) \cap AbnsOf(all_acnc_records) :
           /\ NameInNsw(LastWithAbn(all_acnc_records, a))
           /\ OneThreeWayRecord(a)
           /\ \E i \in Indices(all_acnc_records) :
                  /\ Get(all_acnc_records[i], "abn") = a
                  /\ ~NameInNsw(all_acnc_records[i])

\* The number of merged records with exactly these sources.
WithSources(sources) ==
    Cardinality({ i \in Indices(merged_records) : merged_records[i].sources = sources })

\* C14: among the ABN-seeded records, abn_only counts exactly those without
\* an ACNC match and all_source_matches exactly those with an ACNC and an NSW
\* match; a record with an ACNC match and no NSW match is in neither count.
C14_AbnPassCounters ==
    calls >= 1 =>
        /\ merge_stats.abn_only = WithSources(<<"abn">>)
        /\ merge_stats.all_source_matches = WithSources(<<"abn", "acnc", "nsw">>)
        /\ EmittedBy(merged_records, "abn") =
               merge_stats.abn_only + merge_stats.all_source_matches
                   + WithSources(<<"abn", "acnc">>)

\* A merge whose ABN pass emitted a record with an ACNC match and no NSW
\* match next to a record counted in abn_only or all_source_matches.
C14_Witness ==
    /\ calls >= 1
    /\ WithSources(<<"abn", "acnc">>) = 1
    /\ merge_stats.abn_only + merge_stats.all_source_matches = 1
    /\ all_nsw_records # <<>>

\* The merged records the ACNC pass emitted.
AcncSeededRecords == { i \in Indices(merged_records) : merged_records[i].sources[1] = "acnc" }

\* No NSW field of the merged record is set.
NoNswFields(record) ==
    /\ record.nsw_organisation_number = None
    /\ record.nsw_name = None
    /\ record.nsw_organisation_type = None
    /\ record.nsw_status = None
    /\ record.nsw_date_registered = None
    /\ record.nsw_date_removed = None
    /\ record.nsw_registered_office_address = None
    /\ record.nsw_organisation_id = None

\* Some NSW record of the input has this normalized name.
NswHasName(name) ==
    \E k \in Indices(all_nsw_records) :
        /\ Truthy(Get(all_nsw_records[k], "name"))
        /\ clean_name(all_nsw_records[k]["name"]) = name

\* An earlier merged record took the NSW fields of this normalized name.
ConsumedByEarlier(name, i) ==
    \E j \in Indices(merged_records) :
        /\ j < i
        /\ HasSource(merged_records[j], "nsw")
        /\ clean_name(merged_records[j].nsw_name) = name

\* C15: the ACNC pass emits one record for each ACNC record with an abn no
\* ABN record has.  Such a record with a missing or empty legal_name has
\* sources [acnc] and no NSW field, whatever the NSW records are; one with a
\* name has sources [acnc, nsw] when the normalized name is in the NSW
\* lookup and not consumed, and [acnc] otherwise.  acnc_only counts the
\* first kind and acnc_nsw_matches (beyond the ABN pass) the second.
C15_AcncPassCounters ==
    calls >= 1 =>
        /\ Cardinality(AcncSeededRecords) =
               Cardinality({ k \in Indices(all_acnc_records) :
                   /\ Truthy(Get(all_acnc_records[k], "abn"))
                   /\ all_acnc_records[k]["abn"] \notin AbnsOf(all_abn_records) })
        /\ \A i \in AcncSeededRecords :
               LET record == merged_records[i] IN
               IF ~Truthy(record.legal_name)
               THEN record.sources = <<"acnc">> /\ NoNswFields(record)
               ELSE IF /\ NswHasName(clean_name(record.legal_name))
                       /\ ~ConsumedByEarlier(clean_name(record.legal_name), i)
                    THEN record.sources = <<"acnc", "nsw">>
                    ELSE record.sources = <<"acnc">> /\ NoNswFields(record)
        /\ merge_stats.acnc_only = WithSources(<<"acnc">>)
        /\ merge_stats.acnc_nsw_matches - merge_stats.all_source_matches
               = WithSources(<<"acnc", "nsw">>)

\* A merge whose ACNC pass emitted a record with an empty legal_name while an
\* NSW record has a name that normalizes to the empty string, and a record
\* that matched an NSW record by name.
C15_Witness ==
    /\ calls >= 1
    /\ NswHasName(<<>>)
    /\ \E i, j \in AcncSeededRecords :
           /\ merged_records[i].legal_name = <<>>
           /\ merged_records[i].sources = <<"acnc">>
           /\ merged_records[j].sources = <<"acnc", "nsw">>

\* The first record of the sequence that carries abn a.
FirstWithAbn(records, a) ==
    records[CHOOSE i \in Indices(records) :
                /\ Get(records[i], "abn") = a
                /\ \A j \in Indices(records) : j < i => Get(records[j], "abn") # a]

\* The last NSW record of the sequence with this normalized name.
LastWithName(records, name) ==
    records[CHOOSE i \in Indices(records) :
                /\ Truthy(Get(records[i], "name"))
                /\ clean_name(records[i]["name"]) = name
                /\ \A j \in Indices(records) :
                       (j > i /\ Truthy(Get(records[j], "name")))
                           => clean_name(records[j]["name"]) # name]

\* The fields a merged record takes from an ABN record, under the same key.
AbnFieldNames ==
    { "abn", "is_current", "replaced_from", "entity_status", "effective_from",
      "effective_to", "entity_type_code", "entity_type_description", "anc_status",
      "acnc_status_from", "acnc_status_to", "record_last_updated", "gst", "dgr",
      "main_trading_names", "other_trading_names", "main_business_physical_address",
      "tax_concession_endorsements" }

\* The fields a merged record takes from an ACNC record: the key of the
\* merged record and the key of the ACNC record.
AcncFieldNames ==
    { <<"legal_name", "legal_name">>,
      <<"other_organisation_names", "other_organisation_names">>,
      <<"charity_website", "charity_wbsite">>,
      <<"date_organisation_established", "date_organisation_established">>,
      <<"registration_date", "registration_date">>,
      <<"charity_size", "charity_size">>,
      <<"number_of_responsible_persons", "number_of_responsible_persons">>,
      <<"financial_year_end", "finacial_year_end">>,
      <<"operates_in", "operates_in">>,
      <<"areas_of_interest", "areas_of_interest">>,
      <<"acnc_address", "address">> }

\* The fields a merged record takes from an NSW record.
NswFieldNames ==
    { <<"nsw_organisation_number", "organisation_number">>,
      <<"nsw_name", "name">>,
      <<"nsw_organisation_type", "organisation_type">>,
      <<"nsw_status", "status">>,
      <<"nsw_date_registered", "date_registered">>,
      <<"nsw_date_removed", "date_removed">>,
      <<"nsw_registered_office_address", "registered_office_address">>,
      <<"nsw_organisation_id", "organisation_id">> }

\* C16: the merged record of an abn of the ABN records has its ABN fields
\* from the first ABN record with that abn; the ACNC fields it took through
\* the lookup are those of the last ACNC record with that abn; the NSW fields
\* a record took through the name lookup are those of the last NSW record
\* with that normalized name.
C16_TieBreaks ==
    calls >= 1 =>
        /\ \A a \in AbnsOf(all_abn_records) :
               LET record == merged_records[AbnSeeded(a)] IN
               /\ \A f \in AbnFieldNames :
                      record[f] = Get(FirstWithAbn(all_abn_records, a), f)
               /\ a \in AbnsOf(all_acnc_records) =>
                      \A f \in AcncFieldNames :
                          record[f[1]] = Get(LastWithAbn(all_acnc_records, a), f[2])
        /\ \A i \in Indices(merged_records) :
               (HasSource(merged_records[i], "acnc") /\ HasSource(merged_records[i], "nsw")) =>
                   \A f \in NswFieldNames :
                       merged_records[i][f[1]] =
                           Get(LastWithName(all_nsw_records,
                                            clean_name(merged_records[i].legal_name)), f[2])

\* A merge of two ABN records, two ACNC records and two NSW records that
\* share their key and differ in a field, with a record from all three
\* sources.
C16_Witness ==
    /\ calls >= 1
    /\ Len(all_abn_records) = 2 /\ all_abn_records[1] # all_abn_records[2]
    /\ Len(all_acnc_records) = 2 /\ all_acnc_records[1] # all_acnc_records[2]
    /\ Len(all_nsw_records) = 2 /\ all_nsw_records[1] # all_nsw_records[2]
    /\ Len(merged_records) = 1
    /\ merged_records[1].sources = <<"abn", "acnc", "nsw">>
    /\ merged_records[1].entity_status = all_abn_records[1]["entity_status"]
    /\ merged_records[1].charity_size = all_acnc_records[2]["charity_size"]
    /\ merged_records[1].nsw_organisation_number = all_nsw_records[2]["organisation_number"]

\* ------------------------------------------------------------------
\* Properties of sync_all_sources (checked under Spec)
\* ------------------------------------------------------------------
InSeq(s, x) == \E i \in 1..Len(s) : s[i] = x

\* sub occurs in s as a run of consecutive elements.
ContainsRun(s, sub) ==
    \E off \in 0..(Len(s) - Len(sub)) : SubSeq(s, off + 1, off + Len(sub)) = sub

AllRecordsOf(source) ==
    CASE source = "abn" -> all_abn_records
      [] source = "acnc" -> all_acnc_records
      [] source = "nsw" -> all_nsw_records

\* C3: a postcode with a job whose extractor call failed is listed in
\* postcode_stats['failed_postcodes'] of the response.
C3_FailedPostcodeListed ==
    (pc = "done" /\ response.code = 200) =>
        \A k \in 1..Len(futures) :
            futures[k].extractor_raised
                => InSeq(response.body.postcode_stats.failed_postcodes,
                         futures[k].postcode)

\* C4: every collected job whose extractor returned has all its records in
\* the sequence of its source and counted in by_postcode for its postcode,
\* whatever the other jobs did and in whatever order they completed; after
\* the collection loop no job is left out.
C4_FailureIsolation ==
    /\ \A k \in collected :
           ~futures[k].extractor_raised =>
               /\ Len(futures[k].result)
                      = Len(ExtractorData(futures[k].source, futures[k].postcode))
               /\ ContainsRun(AllRecordsOf(futures[k].source), futures[k].result)
               /\ futures[k].postcode \in DOMAIN postcode_stats.by_postcode
               /\ postcode_stats.by_postcode[futures[k].postcode][futures[k].source]
                      = Len(futures[k].result)
    /\ pc \in {"merge", "load", "done"} => collected = 1..Len(futures)

\* A finished batch in which a job failed and a job of the same postcode
\* returned records.
C4_Witness ==
    /\ pc = "done"
    /\ \E k1, k2 \in collected :
           /\ futures[k1].postcode = futures[k2].postcode
           /\ futures[k1].extractor_raised
           /\ ~futures[k2].extractor_raised
           /\ futures[k2].result # <<>>

\* C5: the merge is not invoked, and the per-source sequences are not read
\* by it, while a submitted job is pending or running.
C5_JoinBarrier ==
    pc \in {"merge", "load", "done"} =>
        \A k \in 1..Len(futures) : futures[k].status = "finished"

\* The merge is about to run on a batch of two postcodes with a failed job.
C5_Witness ==
    /\ pc = "merge"
    /\ Len(futures) > Len(Sources)
    /\ \E k \in 1..Len(futures) : futures[k].extractor_raised

\* C6: at most 5 extraction jobs execute at any moment.
C6_AtMostFiveRunning ==
    Cardinality({ k \in 1..Len(futures) : futures[k].status = "running" }) <= 5

\* Five jobs are running while another one waits in the queue.
C6_Witness ==
    /\ Cardinality({ k \in 1..Len(futures) : futures[k].status = "running" }) = 5
    /\ \E k \in 1..Len(futures) : futures[k].status = "pending"

\* C7: once the submit loops are over there is exactly one job for each
\* pair of a loaded postcode and a source of {abn, acnc, nsw}: 3*|P| jobs.
C7_OneJobPerPair ==
    (pc \in {"collect", "merge", "load"} \/ (pc = "done" /\ postcodes # <<>>)) =>
        /\ Len(futures) = 3 * Len(postcodes)
        /\ \A i \in 1..Len(postcodes) : \A source \in {"abn", "acnc", "nsw"} :
               Cardinality({ k \in 1..Len(futures) :
                   /\ futures[k].postcode = postcodes[i]
                   /\ futures[k].source = source }) = 1

\* The jobs of two postcodes have all been submitted.
C7_Witness ==
    /\ pc = "collect"
    /\ Len(postcodes) > 1
    /\ Len(futures) = 3 * Len(postcodes)

\* The results of the jobs of a source, concatenated in submission order:
\* what the sequence of the source holds when the jobs complete in the order
\* they were submitted.
RECURSIVE InSubmissionOrder(_, _)
InSubmissionOrder(fs, source) ==
    IF fs = <<>> THEN <<>>
    ELSE LET rest == InSubmissionOrder(SubSeq(fs, 1, Len(fs) - 1), source)
             f == fs[Len(fs)]
         IN  IF f.source = source /\ ~f.exception THEN rest \o f.result ELSE rest

\* C12: for the outputs the jobs of a batch returned, the merge statistics
\* and the merged records (updated_at aside) are those of the batch whose
\* jobs complete in submission order, whatever order they completed in.
C12_CompletionOrderIndependent ==
    pc = "load" =>
        LET r == merge_organization_records(InSubmissionOrder(futures, "abn"),
                                            InSubmissionOrder(futures, "acnc"),
                                            InSubmissionOrder(futures, "nsw"), now)
        IN  /\ merge_stats = r.stats
            /\ WithoutUpdatedAt(merged_records) = WithoutUpdatedAt(r.merged_records)

\* The number of records the jobs of a postcode returned.
RECURSIVE RecordsReturnedFor(_, _)
RecordsReturnedFor(fs, postcode) ==
    IF fs = <<>> THEN 0
    ELSE RecordsReturnedFor(SubSeq(fs, 1, Len(fs) - 1), postcode)
             + (IF fs[Len(fs)].postcode = postcode THEN Len(fs[Len(fs)].result) ELSE 0)

\* C17: after the barrier processed_postcodes is the number of postcodes
\* whose jobs returned at least one record over the three sources, and a
\* postcode with a failed job and a job that returned records is counted in
\* it and listed in failed_postcodes.
C17_ProcessedAndFailed ==
    pc \in {"merge", "load"} =>
        /\ postcode_stats.processed_postcodes =
               Cardinality({ i \in 1..Len(postcodes) :
                   RecordsReturnedFor(futures, postcodes[i]) > 0 })
        /\ \A i \in 1..Len(postcodes) :
               ( /\ \E k \in 1..Len(futures) :
                        futures[k].postcode = postcodes[i] /\ futures[k].extractor_raised
                 /\ \E k \in 1..Len(futures) :
                        futures[k].postcode = postcodes[i] /\ futures[k].result # <<>> )
                   => /\ postcode_stats.by_postcode[postcodes[i]].total > 0
                      /\ InSeq(postcode_stats.failed_postcodes, postcodes[i])

\* Some jobs of the batch failed and some did not.
PartialFailure ==
    /\ \E k \in 1..Len(futures) : futures[k].extractor_raised
    /\ \E k \in 1..Len(futures) : ~futures[k].extractor_raised

\* The response carries the statistics and the merged records of the batch,
\* built from all the records the jobs returned.
ResponseCarriesData ==
    /\ response.body.postcode_stats = postcode_stats
    /\ response.body.merge_stats = merge_stats
    /\ response.body.merged_records = merged_records
    /\ response.body.total_merged_records = Len(merged_records)
    /\ merge_stats.total_abn_records = Len(InSubmissionOrder(futures, "abn"))
    /\ merge_stats.total_acnc_records = Len(InSubmissionOrder(futures, "acnc"))
    /\ merge_stats.total_nsw_records = Len(InSubmissionOrder(futures, "nsw"))
    /\ \A k \in 1..Len(futures) :
           ContainsRun(AllRecordsOf(futures[k].source), futures[k].result)

\* C18: the response of a batch in which some but not all jobs failed
\* carries postcode_stats, merge_stats and the merged records built from the
\* records of every job that succeeded, and failed_postcodes lists exactly
\* the postcodes with a failed job.
C18_PartialFailureKeepsData ==
    (pc = "done" /\ response.code = 200 /\ PartialFailure) =>
        /\ ResponseCarriesData
        /\ \A i \in 1..Len(postcodes) :
               InSeq(response.body.postcode_stats.failed_postcodes, postcodes[i])
                   <=> \E k \in 1..Len(futures) :
                           futures[k].postcode = postcodes[i] /\ futures[k].extractor_raised

\* No postcodes are registered for the state of the request.
NothingRegistered == PostcodesKey(Upper(state)) \notin DOMAIN cache

\* C19: a request for a state without registered postcodes (and without a
\* cached result) ends with 404; it goes from the lookup of the postcodes
\* straight to the response: no job was submitted, the merge and the sink
\* were not called and the cache is left as it was.
C19_NotFound ==
    /\ []((pc = "done" /\ NothingRegistered /\ SyncAllKey(Upper(state)) \notin DOMAIN cache)
              => /\ response.code = 404
                 /\ futures = <<>>
                 /\ collected = {}
                 /\ merged_records = <<>>
                 /\ merge_stats = NoStats)
    /\ [][(response.code # 404 /\ response'.code = 404)
              => /\ pc = "idle" /\ pc' = "done"
                 /\ futures' = <<>>
                 /\ cache' = cache
                 /\ UNCHANGED mergeVars]_vars

\* A request for a state without postcodes has been answered with 404.
C19_Witness ==
    /\ pc = "done"
    /\ state # <<>>
    /\ NothingRegistered
    /\ response.code = 404

\* ------------------------------------------------------------------
\* Properties of the single-source routes (checked under SpecSource)
\* ------------------------------------------------------------------
\* The request served last named a source other than nsw, acnc and abn.
ServedInvalidSource ==
    /\ request.route \in {"sync_data", "sync_data_with_state", "sync_data_with_location"}
    /\ request.source \notin ValidSources

\* C20: a request of sync_data, sync_data_with_state or
\* sync_data_with_location that names a source other than nsw, acnc and abn
\* is answered 400, and serving it calls no extractor, upserts nothing and
\* writes no cache entry.
C20_InvalidSourceRejected ==
    /\ [](ServedInvalidSource => response.code = 400)
    /\ [][(requests' = requests + 1 /\ ServedInvalidSource')
              => UNCHANGED << extractor_calls, upserted, cache >>]_vars

\* ------------------------------------------------------------------
\* Properties of repeated requests (checked under SpecRepeat)
\* ------------------------------------------------------------------
\* A request starts: sync_all_sources is entered.
RequestStarts == pc = "idle" /\ requests' = requests + 1

\* C21: whole-batch memoization.  A successful request leaves its response
\* under sync_all_{STATE}; while that entry is present, a request for the
\* state in any letter case ends in one step with the stored payload: no
\* postcodes are loaded, no job is submitted, the merge and the sink are not
\* called and the cache is not written.
C21_Memoized ==
    /\ []((pc = "done" /\ response.code = 200
               /\ SyncAllKey(Upper(state)) \in DOMAIN cache)
              => cache[SyncAllKey(Upper(state))] = response.body)
    /\ [][(RequestStarts /\ SyncAllKey(Upper(state')) \in DOMAIN cache)
              => /\ pc' = "done"
                 /\ response' = [ code |-> 200,
                                  body |-> cache[SyncAllKey(Upper(state'))] ]
                 /\ cache' = cache
                 /\ UNCHANGED << postcodes, futures, collected, postcode_stats,
                                 mergeVars, extractor_calls, upserted >>]_vars

\* A second request, written in the other letter case than the stored
\* state code, has been served from the entry the first one stored.
C21_Witness ==
    /\ requests = 2
    /\ pc = "done"
    /\ state = <<"N", "s", "w">>
    /\ response.code = 200
    /\ futures = <<>>
    /\ Len(upserted) = 1
    /\ response.body.processing_time < now

\* ------------------------------------------------------------------
\* Properties of the CSV export (checked under Spec)
\* ------------------------------------------------------------------
\* The column names the specification lists for the export, in its order.
ListedColumns ==
    << "abn", "is_current", "replaced_from", "entity_status", "effective_from",
       "effective_to", "entity_type_code", "entity_type_description", "anc_status",
       "acnc_status_from", "acnc_status_to", "record_last_updated", "gst", "dgr",
       "main_trading_names", "other_trading_names",
       "main_business_physical_address", "tax_concession_endorsements",
       "legal_name", "other_organisation_names", "charity_website",
       "date_organisation_established", "registration_date", "charity_size",
       "number_of_responsible_persons", "financial_year_end", "operates_in",
       "areas_of_interest", "acnc_address", "nsw_organisation_number", "nsw_name",
       "nsw_organisation_type", "nsw_status", "nsw_date_registered",
       "nsw_date_removed", "nsw_registered_office_address", "nsw_organisation_id",
       "sources", "updated_at" >>

\* The files written so far.
Files == { csv_files[f] : f \in DOMAIN csv_files }

\* C22 as stated: every exported file has a header of exactly 38 columns,
\* the listed names in the listed order, whatever records were written.
C22_Header38 ==
    \A file \in Files : Len(file.header) = 38 /\ file.header = ListedColumns

\* C22 as amended: every exported file has the header of exactly 39 columns
\* that the specification lists, name by name and in its order, whatever
\* records were written.
C22_Header39 ==
    \A file \in Files : Len(file.header) = 39 /\ file.header = ListedColumns

\* A file was written with two rows that differ.
C22_Witness ==
    \E file \in Files :
        /\ Len(file.rows) >= 2
        /\ file.rows[1] # file.rows[2]

\* ------------------------------------------------------------------
\* Termination of the batch (checked under SpecFair)
\* ------------------------------------------------------------------
\* Some job of the batch met an exception of its extractor, some did not.
SomeJobsFailed ==
    /\ \E k \in 1..Len(futures) : futures[k].extractor_raised
    /\ \E k \in 1..Len(futures) : ~futures[k].extractor_raised

\* C23: the batch runs to completion.  Once the submission of the jobs has
\* started, the request eventually returns a response, and when it has, all
\* 3 * |postcodes| jobs were submitted, every one is done and was collected:
\* none is pending, running or dropped, whichever jobs failed.
C23_RunsToCompletion ==
    /\ (pc = "submit") ~> (pc = "done" /\ response.code # 0)
    /\ []((pc = "done" /\ postcodes # <<>>)
              => /\ Len(futures) = Len(Sources) * Len(postcodes)
                 /\ \A k \in 1..Len(futures) : futures[k].status = "finished"
                 /\ collected = 1..Len(futures))

\* A batch of two postcodes has returned though some of its jobs failed.
C23_Witness ==
    /\ pc = "done"
    /\ Len(postcodes) = 2
    /\ Len(futures) = 6
    /\ SomeJobsFailed
    /\ response.code = 200

\* ------------------------------------------------------------------
\* Purity of the merge (checked under SpecMergeTwice)
\* ------------------------------------------------------------------
\* A call of the merge returns in this step.
MergeReturned == calls' = calls + 1

\* What the call that returns in this step returned.
ReturnedRecords == IF calls' = 1 THEN merged_records' ELSE merged_again'

\* A call leaves its three arguments as they were, record for record, and
\* writes nothing but its return value.
ArgumentsAndStateKept ==
    MergeReturned =>
        UNCHANGED << all_abn_records, all_acnc_records, all_nsw_records,
                     syncVars, sourceVars, now >>

\* C24 as stated: a call of the merge leaves its input sequences and their
\* records unchanged, writes no state but its return value, and reads no
\* state but its arguments: calls on the same arguments return the same.
C24_PureAsStated ==
    /\ [][ArgumentsAndStateKept]_vars
    /\ [](calls = 2 => (merged_again = merged_records /\ stats_again = merge_stats))

\* C24 as amended: a call of the merge leaves its input sequences and their
\* records unchanged, writes no state but its return value, and reads no
\* state but its arguments and the clock, whose reading it writes to
\* updated_at of every record it returns and uses for nothing else.
C24_PureButClock ==
    /\ [][ArgumentsAndStateKept]_vars
    /\ [][MergeReturned =>
              \A i \in Indices(ReturnedRecords) : ReturnedRecords[i].updated_at = now]_vars
    /\ [](calls = 2 =>
              /\ stats_again = merge_stats
              /\ Len(merged_again) = Len(merged_records)
              /\ \A i \in Indices(merged_records) :
                     [merged_again[i] EXCEPT !.updated_at = merged_records[i].updated_at]
                         = merged_records[i])

\* Two calls on arguments of two NSW records, at two readings of the clock,
\* returned records that differ in updated_at.
C24_Witness ==
    /\ calls = 2
    /\ Len(all_nsw_records) = 2
    /\ merged_records # <<>>
    /\ merged_again[1].updated_at # merged_records[1].updated_at

\* ------------------------------------------------------------------
\* Absent and null fields of the input records (checked under SpecMerge)
\* ------------------------------------------------------------------
\* The input records of a source that carry a non-empty value under key.
Identified(records, key) ==
    { i \in Indices(records) : Truthy(Get(records[i], key)) }

\* The fields of the pairs that the source record lacks are None in the
\* merged record.
AbsentIsNull(merged_record, source_record, pairs) ==
    \A f \in pairs :
        f[2] \notin DOMAIN source_record => merged_record[f[1]] = None

\* The merged record has None in every field of the pairs.
AllNull(merged_record, pairs) ==
    \A f \in pairs : merged_record[f[1]] = None

AbnFieldPairs == { << f, f >> : f \in AbnFieldNames }

\* C25: merge_organization_records returns without raising whatever fields
\* of the input records are absent or None; no pass emits more records than
\* its source has records with an identifier (abn for ABN and ACNC, name for
\* NSW), and every merged record carries a non-empty abn or nsw_name; a field
\* that the contributing source record lacks, or whose source did not
\* contribute, is None in the merged record.
C25_NeverRaises ==
    calls >= 1 =>
        /\ ~raised
        /\ EmittedBy(merged_records, "abn") <= Cardinality(Identified(all_abn_records, "abn"))
        /\ EmittedBy(merged_records, "acnc") <= Cardinality(Identified(all_acnc_records, "abn"))
        /\ EmittedBy(merged_records, "nsw") <= Cardinality(Identified(all_nsw_records, "name"))
        /\ \A i \in Indices(merged_records) :
               LET record == merged_records[i] IN
               /\ Truthy(record.abn) \/ Truthy(record.nsw_name)
               /\ record.sources[1] = "abn" =>
                      AbsentIsNull(record, FirstWithAbn(all_abn_records, record.abn),
                                   AbnFieldPairs)
               /\ (record.sources[1] = "abn" /\ HasSource(record, "acnc")) =>
                      AbsentIsNull(record, LastWithAbn(all_acnc_records, record.abn),
                                   AcncFieldNames)
               /\ record.sources[1] = "acnc" =>
                      /\ AbsentIsNull(record, FirstWithAbn(all_acnc_records, record.abn),
                                      AcncFieldNames)
                      /\ AllNull(record, AbnFieldPairs \ { << "abn", "abn" >> })
               /\ (record.sources[1] # "nsw" /\ HasSource(record, "nsw")) =>
                      AbsentIsNull(record,
                                   LastWithName(all_nsw_records, clean_name(record.legal_name)),
                                   NswFieldNames)
               /\ record.sources = << "nsw" >> =>
                      /\ \E k \in Identified(all_nsw_records, "name") :
                             /\ all_nsw_records[k]["name"] = record.nsw_name
                             /\ AbsentIsNull(record, all_nsw_records[k], NswFieldNames)
                      /\ AllNull(record, AbnFieldPairs)
                      /\ AllNull(record, AcncFieldNames)
               /\ ~HasSource(record, "acnc") => AllNull(record, AcncFieldNames)
               /\ ~HasSource(record, "nsw") => AllNull(record, NswFieldNames)

\* A merge that returned records although an ABN record has no abn key, an
\* ACNC record has a None abn and an NSW record has a None name.
C25_Witness ==
    /\ calls >= 1
    /\ ~raised
    /\ \E i \in Indices(all_abn_records) : "abn" \notin DOMAIN all_abn_records[i]
    /\ \E i \in Indices(all_acnc_records) : all_acnc_records[i]["abn"] = None
    /\ \E i \in Indices(all_nsw_records) : all_nsw_records[i]["name"] = None
    /\ Len(merged_records) = 3

\* ------------------------------------------------------------------
\* Provenance of the merged records (checked under SpecMerge)
\* ------------------------------------------------------------------
SourceNames == { "abn", "acnc", "nsw" }

AllowedSources ==
    { << "abn" >>, << "abn", "acnc" >>, << "abn", "acnc", "nsw" >>,
      << "acnc" >>, << "acnc", "nsw" >>, << "nsw" >> }

DuplicateFree(s) == \A j, k \in 1..Len(s) : j # k => s[j] # s[k]

\* C26: the sources list of every merged record is non-empty, without
\* duplicates, made of abn, acnc and nsw, and one of [abn], [abn, acnc],
\* [abn, acnc, nsw], [acnc], [acnc, nsw], [nsw]; nsw is never with abn
\* without acnc; the abn of a record is other than None exactly when its
\* sources contain abn or acnc.
C26_Provenance ==
    calls >= 1 =>
        \A i \in Indices(merged_records) :
            LET record == merged_records[i] IN
            /\ record.sources # <<>>
            /\ DuplicateFree(record.sources)
            /\ \A j \in 1..Len(record.sources) : record.sources[j] \in SourceNames
            /\ record.sources \in AllowedSources
            /\ (HasSource(record, "nsw") /\ HasSource(record, "abn"))
                   => HasSource(record, "acnc")
            /\ (record.abn # None)
                   <=> (HasSource(record, "abn") \/ HasSource(record, "acnc"))

\* A merge that returned a record of all three sources, one of ACNC alone and
\* one of NSW alone.
C26_Witness ==
    /\ calls >= 1
    /\ \E i, j, k \in Indices(merged_records) :
           /\ merged_records[i].sources = << "abn", "acnc", "nsw" >>
           /\ merged_records[j].sources = << "acnc" >>
           /\ merged_records[k].sources = << "nsw" >>
           /\ merged_records[k].abn = None

\* ------------------------------------------------------------------
\* Keys of the merged records and the CSV header (checked under SpecMerge)
\* ------------------------------------------------------------------
\* C27: the records of the three passes of a merge all have the same key
\* set, the set of the column names of the CSV header, so that writing them
\* meets no key the header lacks.
C27_SameKeys ==
    calls >= 1 =>
        /\ \A i, j \in Indices(merged_records) :
               DOMAIN merged_records[i] = DOMAIN merged_records[j]
        /\ \A i \in Indices(merged_records) :
               /\ DOMAIN merged_records[i] = Names(fieldnames)
               /\ ~RowRaises(merged_records[i], fieldnames)
        /\ ~write_merged_records_to_csv(merged_records).raised

\* A merge that returned a record seeded by each of the three passes.
C27_Witness ==
    /\ calls >= 1
    /\ ~raised
    /\ EmittedBy(merged_records, "abn") >= 1
    /\ EmittedBy(merged_records, "acnc") >= 1
    /\ EmittedBy(merged_records, "nsw") >= 1

\* ------------------------------------------------------------------
\* Accounting of the collector (checked under Spec)
\* ------------------------------------------------------------------
\* The sum of the counts of `source` over the postcodes ps of by_postcode.
RECURSIVE SourceCount(_, _, _)
SourceCount(by_postcode, ps, source) ==
    IF ps = {} THEN 0
    ELSE LET p == CHOOSE x \in ps : TRUE
         IN  by_postcode[p][source] + SourceCount(by_postcode, ps \ {p}, source)

AfterBarrier == pc \in { "merge", "load", "done" }

\* C28: whatever results have been collected, the total of every entry of
\* by_postcode is the sum of its abn, acnc and nsw counts; once the loop
\* over the futures has ended, the length of each per-source sequence is
\* the sum over the postcodes of that source's count.
C28_Accounting ==
    LET by_postcode == postcode_stats.by_postcode IN
    /\ \A p \in DOMAIN by_postcode :
           by_postcode[p].total =
               by_postcode[p].abn + by_postcode[p].acnc + by_postcode[p].nsw
    /\ AfterBarrier =>
           /\ Len(all_abn_records) = SourceCount(by_postcode, DOMAIN by_postcode, "abn")
           /\ Len(all_acnc_records) = SourceCount(by_postcode, DOMAIN by_postcode, "acnc")
           /\ Len(all_nsw_records) = SourceCount(by_postcode, DOMAIN by_postcode, "nsw")

\* The loop has ended with entries for two postcodes, NSW records counted,
\* and a job whose extractor call raised.
C28_Witness ==
    /\ pc = "merge"
    /\ Cardinality(DOMAIN postcode_stats.by_postcode) = 2
    /\ \A p \in DOMAIN postcode_stats.by_postcode : postcode_stats.by_postcode[p].total > 0
    /\ Len(all_nsw_records) >= 1
    /\ Len(all_abn_records) >= 2
    /\ \E k \in 1..Len(futures) : futures[k].extractor_raised

\* ------------------------------------------------------------------
\* Failure of the sink (checked under SpecRepeat)
\* ------------------------------------------------------------------
\* The step of sync_all_sources from the merge result to the response.
LoadStep == pc = "load" /\ pc' = "done"

\* The step ended without the upsert of a non-empty merge taking effect: the
\* CSV write or the upsert raised.
SinkRaised == LoadStep /\ merged_records # <<>> /\ upserted' = upserted

\* C29: when the CSV write or the upsert raises after a non-empty merge the
\* request ends with a failed response and the cache is left as it was,
\* without an entry under sync_all_{STATE}; a request that finds no such
\* entry and finds postcodes for its state goes on to a new batch of
\* extraction jobs; with an empty merge the step writes no CSV file and
\* upserts nothing.
C29_SinkFailure ==
    /\ [][SinkRaised
              => /\ response'.code = 500
                 /\ response'.body.status = "failed"
                 /\ cache' = cache
                 /\ SyncAllKey(Upper(state)) \notin DOMAIN cache']_vars
    /\ []((pc = "done" /\ response.code = 500)
              => SyncAllKey(Upper(state)) \notin DOMAIN cache)
    /\ [][(/\ RequestStarts
           /\ SyncAllKey(Upper(state')) \notin DOMAIN cache
           /\ PostcodesKey(Upper(state')) \in DOMAIN cache
           /\ cache[PostcodesKey(Upper(state'))].postcodes # <<>>)
              => /\ pc' = "submit"
                 /\ futures' = <<>>
                 /\ postcodes' = Sorted(cache[PostcodesKey(Upper(state'))].postcodes)]_vars
    /\ [][(LoadStep /\ merged_records = <<>>)
              => /\ csv_files' = csv_files
                 /\ upserted' = upserted
                 /\ response'.code = 200]_vars

\* The second request is collecting the results of its own batch after the
\* first one wrote its CSV file and failed in the upsert: a file exists,
\* nothing was ever upserted and nothing is stored under the key.
C29_Witness ==
    /\ requests = 2
    /\ pc = "collect"
    /\ Len(futures) >= 3
    /\ csv_files # <<>>
    /\ upserted = <<>>
    /\ SyncAllKey(Upper(state)) \notin DOMAIN cache

\* ------------------------------------------------------------------
\* Retries of the ABR client (checked under SpecAbr)
\* ------------------------------------------------------------------
\* The waits of a call that made n attempts: 1 s, then 2 s.
WaitsOf(n) == SubSeq(<< 1, 2 >>, 1, n - 1)

\* Every attempt but the last ended in a RequestException.
RetriedOnlyAfterRequestException(tried) ==
    \A i \in 1..(Len(tried) - 1) : tried[i] = "request_exception"

====
